---- MODULE Spec2Model ----
(***************************************************************************)
(* VisionCursor: the calibration state machine (src/vision/calibrator.py), *)
(* the calibration record and its validation (src/storage/schema.py), the  *)
(* application state machine (src/core/state.py) and the Controller that   *)
(* drives them from the frame loop (src/core/controller.py).               *)
(*                                                                         *)
(* Units.  Gaze components are integers in hundredths (1.0 is 100).        *)
(* Normalized target positions are integers in hundredths of the screen    *)
(* (0.15 is 15).  The trim fraction is an integer percentage (0.15 is 15). *)
(* A float computed as a mean is kept exactly, as the pair num/den.        *)
(* Time is counted in whole seconds.                                       *)
(***************************************************************************)
EXTENDS Integers, Sequences, FiniteSets, TLC

VARIABLES
    config,         \* CalibrationConfig handed to the Calibrator
    screen_width,   \* Calibrator._screen_width, Controller._screen_width
    screen_height,  \* Calibrator._screen_height, Controller._screen_height
    cal,            \* the Calibrator object: state, current_target_index, targets, calibration_data
    calibration_input,  \* the CalibrationData a GazeMapper is being constructed from, or a CalibrationTarget used directly
    call,           \* the last call of a method of a record, mapper or smoother: arguments and result
    smooth_calls,   \* number of direct calls of smooth() since the smoother was made or reset
    gaze_mapper,    \* Controller._gaze_mapper: a GazeMapper or None
    app,            \* Controller._state_machine: current_state, previous_state, error
    camera_open,    \* Camera._is_open
    gaze_config,    \* the GazeConfig object shared by the Controller and the smoother
    smoother,       \* GazeSmoother: smoothed_x, smoothed_y, dead_zone_pixels
    tracking_enabled,   \* Controller._tracking_enabled
    cursor_enabled, \* CursorController._enabled
    mouse_position, \* where the cursor sink last put the cursor
    last_cursor_pos,    \* Controller._last_cursor_pos
    calibration_countdown_start,    \* Controller._calibration_countdown_start
    store_file,     \* the calibration file of the CalibrationStore
    now,            \* time.time(), in seconds
    frame_result,   \* what process_frame returned, if it was the last operation
    worker,         \* ProcessingWorker: where it is in process_frame, and its locals
    visited,        \* history: the targets that have been in COLLECTING since the last start()
    waited,         \* history: seconds passed since the calibrator last entered a countdown
    odd_frames,     \* number of frames so far whose gaze was not the nominal one
    last_op,        \* the operation performed by the last step, with its argument
    ret             \* what that operation returned

calVars == <<config, screen_width, screen_height, cal>>
ctlVars == <<app, camera_open, gaze_config, smoother, tracking_enabled,
             cursor_enabled, mouse_position, last_cursor_pos,
             calibration_countdown_start, store_file, now, frame_result,
             worker, visited, waited>>
vars == <<config, screen_width, screen_height, cal, calibration_input, call,
          smooth_calls,
          gaze_mapper, app, camera_open, gaze_config, smoother,
          tracking_enabled, cursor_enabled, mouse_position, last_cursor_pos,
          calibration_countdown_start, store_file, now, frame_result,
          worker, visited, waited, odd_frames, last_op, ret>>

(***************************************************************************)
(* Bounds of the model.                                                    *)
(***************************************************************************)
MaxTargets == 3
SmallQuota == 2
MaxOddFrames == 1
MaxSmoothCalls == 3
MaxBufferLen == 11

(***************************************************************************)
(* Program constants.                                                      *)
(***************************************************************************)
MinSamples == 10
MinSamplesPerPoint == 10
MinPoints == 3
GazeLimit == 200
DefaultTrimPercent == 15
DefaultCountdownSeconds == 3

None == [none |-> TRUE]

\* The record kept in last_op: an operation and the gaze it was given.
Op(name, arg) == [op |-> name, arg |-> arg]
NoArg == [x |-> 0, y |-> 0]

\* The record kept in call: a method, its arguments and what it returned.
Call(fn, args, result) == [fn |-> fn, args |-> args, result |-> result]
\* No method has been called yet.
NoCall == Call("none", <<>>, None)

DefaultTargetPositions ==
    << <<50, 50>>, <<15, 50>>, <<85, 50>>, <<50, 15>>, <<50, 85>> >>

\* A configuration whose first target lies left of the screen.
OffScreenTargetPositions == << <<-10, 50>>, <<15, 50>>, <<85, 50>> >>

TargetPositionChoices ==
    {SubSeq(DefaultTargetPositions, 1, n) : n \in 1..MaxTargets}
        \cup {OffScreenTargetPositions}

TrimChoices == {0, DefaultTrimPercent}

\* Screen sizes are multiples of 100 pixels, so that a normalized position
\* in hundredths times a dimension is a whole number of pixels.
ScreenSizes == {<<200, 100>>}

CalStates == {"IDLE", "COUNTDOWN", "COLLECTING", "COMPLETED"}

NominalGaze == [x |-> 0, y |-> 0]
\* What the estimator can deliver (each component clamped to [-1, 1]).
ClampedOddGazes == {[x |-> 80, y |-> -80]}
\* What a direct caller of the Calibrator can hand in (not clamped).
OddGazes == ClampedOddGazes \cup {[x |-> 2500, y |-> 0]}

(***************************************************************************)
(* Floats that come out of numpy: a value num/den, or nan.                 *)
(***************************************************************************)
Float(n, d) == [kind |-> "float", num |-> n, den |-> d]
NaN == [kind |-> "nan", num |-> 0, den |-> 1]
ValueError == [kind |-> "ValueError", num |-> 0, den |-> 1]

\* Python's a < b and a == b for two floats (den > 0): False as soon as one
\* of them is nan.
FloatLess(a, b) ==
    a.kind = "float" /\ b.kind = "float" /\ a.num * b.den < b.num * a.den
FloatEq(a, b) ==
    a.kind = "float" /\ b.kind = "float" /\ a.num * b.den = b.num * a.den

\* np.partition followed by a slice: the values in ascending order.
Sorted(s) == SortSeq(s, LAMBDA a, b : a < b)

RECURSIVE SumSeq(_)
SumSeq(s) == IF s = <<>> THEN 0 ELSE Head(s) + SumSeq(Tail(s))

\* The mutant of TrimMean: the values are cut in the order they came in.
TrimMeanUnsorted(a, pct) ==
    LET nobs == Len(a)
        lowercut == (pct * nobs) \div 100
        uppercut == nobs - lowercut
        kept == SubSeq(a, lowercut + 1, uppercut)
    IN  IF nobs = 0 THEN NaN
        ELSE IF lowercut > uppercut THEN ValueError
        ELSE IF kept = <<>> THEN NaN
        ELSE Float(SumSeq(kept), Len(kept))

\* scipy.stats.trim_mean(a, proportiontocut): cut int(p * n) values from each
\* end of the sorted values and average the rest.
TrimMean(a, pct) ==
    LET nobs == Len(a)
        lowercut == (pct * nobs) \div 100
        uppercut == nobs - lowercut
        kept == SubSeq(Sorted(a), lowercut + 1, uppercut)
    IN  IF nobs = 0 THEN NaN
        ELSE IF lowercut > uppercut THEN ValueError
        ELSE IF kept = <<>> THEN NaN
        ELSE Float(SumSeq(kept), Len(kept))

(***************************************************************************)
(* CalibrationTarget                                                       *)
(***************************************************************************)
\* The mutant of ComputeAverage: no minimum sample count.
ComputeAverageNoMinimum(target, trim_percent) ==
    LET gaze_x == [i \in 1..Len(target.samples) |-> target.samples[i].x]
        gaze_y == [i \in 1..Len(target.samples) |-> target.samples[i].y]
        avg_x == TrimMean(gaze_x, trim_percent)
        avg_y == TrimMean(gaze_y, trim_percent)
    IN  IF avg_x.kind = "ValueError" \/ avg_y.kind = "ValueError"
        THEN [status |-> "ValueError", x |-> NaN, y |-> NaN]
        ELSE [status |-> "value", x |-> avg_x, y |-> avg_y]

\* status "insufficient" is the returned None; "ValueError" is trim_mean raising.
ComputeAverage(target, trim_percent) ==
    IF Len(target.samples) < MinSamples
    THEN [status |-> "insufficient", x |-> NaN, y |-> NaN]
    ELSE LET gaze_x == [i \in 1..Len(target.samples) |-> target.samples[i].x]
             gaze_y == [i \in 1..Len(target.samples) |-> target.samples[i].y]
             avg_x == TrimMean(gaze_x, trim_percent)
             avg_y == TrimMean(gaze_y, trim_percent)
         IN  IF avg_x.kind = "ValueError" \/ avg_y.kind = "ValueError"
             THEN [status |-> "ValueError", x |-> NaN, y |-> NaN]
             ELSE [status |-> "value", x |-> avg_x, y |-> avg_y]

(***************************************************************************)
(* CalibrationPoint and CalibrationData                                    *)
(***************************************************************************)
\* Python's  -2.0 <= g <= 2.0 : false for nan.
InGazeRange(g) ==
    /\ g.kind = "float"
    /\ -GazeLimit * g.den <= g.num
    /\ g.num <= GazeLimit * g.den

\* The message of the ValueError that CalibrationPoint.validate raises, or "ok".
PointValidate(p) ==
    IF FloatLess(p.screen_x, Float(0, 1)) \/ FloatLess(p.screen_y, Float(0, 1))
    THEN "Screen coordinates must be non-negative"
    ELSE IF ~InGazeRange(p.gaze_x) \/ ~InGazeRange(p.gaze_y)
    THEN "Gaze values out of expected range"
    ELSE IF p.sample_count <= 0
    THEN "Sample count must be positive"
    ELSE "ok"

\* Strings that datetime.fromisoformat accepts.
IsoTimestamps == {"2025-06-01T12:00:00", "2026-01-01T00:00:00"}
\* datetime.now().isoformat()
NowIsoformat == "2026-01-01T00:00:00"

\* The message of the ValueError that CalibrationData.validate raises, or "ok".
Validate(d) ==
    IF d.version = ""
    THEN "Missing version"
    ELSE IF d.screen_width <= 0 \/ d.screen_height <= 0
    THEN "Invalid screen dimensions"
    ELSE IF Len(d.points) < MinPoints
    THEN "Need at least 3 calibration points"
    ELSE IF \E i \in 1..Len(d.points) : PointValidate(d.points[i]) # "ok"
    THEN "Invalid calibration point"
    ELSE IF d.timestamp \notin IsoTimestamps
    THEN "Invalid timestamp format"
    ELSE "ok"

\* CalibrationData(screen_width=w, screen_height=h, points=points): the
\* defaults of the dataclass and __post_init__.
NewCalibrationData(w, h, points) ==
    [version |-> "1.0", timestamp |-> NowIsoformat,
     screen_width |-> w, screen_height |-> h, points |-> points]

(***************************************************************************)
(* Calibrator                                                              *)
(***************************************************************************)
NewCalibrator ==
    [state |-> "IDLE", current_target_index |-> 0, targets |-> <<>>,
     calibration_data |-> None]

\* The mutant of CalStart: the targets of the earlier run are kept.
CalStartKeepTargets(c) ==
    [c EXCEPT !.state = "IDLE", !.current_target_index = 0,
              !.targets =
                  IF c.targets = <<>>
                  THEN [i \in 1..Len(config.target_positions) |->
                          [index |-> i - 1,
                           screen_x |-> (config.target_positions[i][1] * screen_width) \div 100,
                           screen_y |-> (config.target_positions[i][2] * screen_height) \div 100,
                           samples |-> <<>>]]
                  ELSE c.targets]

CalStart(c) ==
    [c EXCEPT !.state = "IDLE", !.current_target_index = 0,
              !.targets =
                  [i \in 1..Len(config.target_positions) |->
                      [index |-> i - 1,
                       screen_x |-> (config.target_positions[i][1] * screen_width) \div 100,
                       screen_y |-> (config.target_positions[i][2] * screen_height) \div 100,
                       samples |-> <<>>]]]

CalSetState(c, state) == [c EXCEPT !.state = state]

\* The mutant of FinalizeCalibration: a failure leaves the data that was assembled.
FinalizeCalibrationKeepData(c) ==
    LET n == Len(c.targets)
        avg == [i \in 1..n |->
                   ComputeAverage(c.targets[i], config.outlier_trim_percent)]
        raised == \E i \in 1..n : avg[i].status # "value"
        points == [i \in 1..n |->
                      [screen_x |-> Float(c.targets[i].screen_x, 1),
                       screen_y |-> Float(c.targets[i].screen_y, 1),
                       gaze_x |-> avg[i].x,
                       gaze_y |-> avg[i].y,
                       sample_count |-> Len(c.targets[i].samples)]]
        data == NewCalibrationData(screen_width, screen_height, points)
    IN  IF raised \/ Validate(data) # "ok"
        THEN [c EXCEPT !.state = "IDLE", !.calibration_data = data]
        ELSE [c EXCEPT !.state = "COMPLETED", !.calibration_data = data]

FinalizeCalibration(c) ==
    LET n == Len(c.targets)
        avg == [i \in 1..n |->
                   ComputeAverage(c.targets[i], config.outlier_trim_percent)]
        raised == \E i \in 1..n : avg[i].status # "value"
        points == [i \in 1..n |->
                      [screen_x |-> Float(c.targets[i].screen_x, 1),
                       screen_y |-> Float(c.targets[i].screen_y, 1),
                       gaze_x |-> avg[i].x,
                       gaze_y |-> avg[i].y,
                       sample_count |-> Len(c.targets[i].samples)]]
        data == NewCalibrationData(screen_width, screen_height, points)
    IN  IF raised \/ Validate(data) # "ok"
        THEN [c EXCEPT !.state = "IDLE", !.calibration_data = None]
        ELSE [c EXCEPT !.state = "COMPLETED", !.calibration_data = data]

\* The mutant of CompleteCurrentTarget: the next target is collected at once.
CompleteCurrentTargetNoCountdown(c) ==
    LET c1 == [c EXCEPT !.current_target_index = @ + 1]
    IN  IF c1.current_target_index >= Len(c1.targets)
        THEN FinalizeCalibration(c1)
        ELSE c1

CompleteCurrentTarget(c) ==
    LET c1 == [c EXCEPT !.current_target_index = @ + 1]
    IN  IF c1.current_target_index >= Len(c1.targets)
        THEN FinalizeCalibration(c1)
        ELSE [c1 EXCEPT !.state = "COUNTDOWN"]

\* The mutant of CalAddSample: the target is completed one sample late.
CalAddSampleOneMore(c, gaze) ==
    IF c.state # "COLLECTING"
    THEN [cal |-> c, ret |-> "False"]
    ELSE IF c.current_target_index >= Len(c.targets)
    THEN [cal |-> c, ret |-> "IndexError"]
    ELSE LET i == c.current_target_index + 1
             c1 == [c EXCEPT !.targets[i].samples = Append(@, gaze)]
         IN  [cal |-> IF Len(c1.targets[i].samples) > config.samples_per_point
                      THEN CompleteCurrentTarget(c1)
                      ELSE c1,
              ret |-> "True"]

\* The mutant of CalAddSample: the state is not looked at.
CalAddSampleAnyState(c, gaze) ==
    IF c.current_target_index >= Len(c.targets)
    THEN [cal |-> c, ret |-> "IndexError"]
    ELSE LET i == c.current_target_index + 1
             c1 == [c EXCEPT !.targets[i].samples = Append(@, gaze)]
         IN  [cal |-> IF Len(c1.targets[i].samples) >= config.samples_per_point
                      THEN CompleteCurrentTarget(c1)
                      ELSE c1,
              ret |-> "True"]

\* add_sample: the calibrator afterwards and the value returned
\* ("IndexError": self._targets[index] raised, nothing was changed).
CalAddSample(c, gaze) ==
    IF c.state # "COLLECTING"
    THEN [cal |-> c, ret |-> "False"]
    ELSE IF c.current_target_index >= Len(c.targets)
    THEN [cal |-> c, ret |-> "IndexError"]
    ELSE LET i == c.current_target_index + 1
             c1 == [c EXCEPT !.targets[i].samples = Append(@, gaze)]
         IN  [cal |-> IF Len(c1.targets[i].samples) >= config.samples_per_point
                      THEN CompleteCurrentTarget(c1)
                      ELSE c1,
              ret |-> "True"]

\* The mutant of GetCurrentTarget: none outside COUNTDOWN and COLLECTING.
GetCurrentTargetByState(c) ==
    IF /\ c.state \in {"COUNTDOWN", "COLLECTING"}
       /\ c.current_target_index < Len(c.targets)
    THEN c.targets[c.current_target_index + 1]
    ELSE None

GetCurrentTarget(c) ==
    IF 0 <= c.current_target_index /\ c.current_target_index < Len(c.targets)
    THEN c.targets[c.current_target_index + 1]
    ELSE None

(***************************************************************************)
(* StateMachine (src/core/state.py)                                        *)
(***************************************************************************)
AppStates == {"IDLE", "CALIBRATING", "TRACKING", "PAUSED", "ERROR"}

ValidTransitions ==
    [s \in AppStates |->
        CASE s = "IDLE" -> {"CALIBRATING", "TRACKING", "ERROR"}
          [] s = "CALIBRATING" -> {"IDLE", "ERROR"}
          [] s = "TRACKING" -> {"PAUSED", "IDLE", "ERROR"}
          [] s = "PAUSED" -> {"TRACKING", "IDLE", "ERROR"}
          [] s = "ERROR" -> {"IDLE"}]

IsValidTransition(from_state, to_state) ==
    \/ from_state = to_state
    \/ to_state \in ValidTransitions[from_state]

NewStateMachine ==
    [current_state |-> "IDLE", previous_state |-> "None", error |-> None]

\* The mutant of TransitionTo: the error is kept when ERROR is left.
TransitionToKeepError(sm, new_state) ==
    IF ~IsValidTransition(sm.current_state, new_state)
    THEN sm
    ELSE [current_state |-> new_state,
          previous_state |-> sm.current_state,
          error |-> sm.error]

\* The mutant of TransitionTo: the transition is not validated.
TransitionToUnchecked(sm, new_state) ==
    [current_state |-> new_state,
     previous_state |-> sm.current_state,
     error |-> IF sm.current_state = "ERROR" /\ new_state # "ERROR"
               THEN None
               ELSE sm.error]

\* transition_to: the machine afterwards (unchanged when the transition is
\* refused).
TransitionTo(sm, new_state) ==
    IF ~IsValidTransition(sm.current_state, new_state)
    THEN sm
    ELSE [current_state |-> new_state,
          previous_state |-> sm.current_state,
          error |-> IF sm.current_state = "ERROR" /\ new_state # "ERROR"
                    THEN None
                    ELSE sm.error]

ErrorInfo(error_type, message, recoverable) ==
    [error_type |-> error_type, message |-> message, recoverable |-> recoverable]

SetError(sm, error_info) ==
    TransitionTo([sm EXCEPT !.error = error_info], "ERROR")

CanTransitionTo(sm, new_state) ==
    IsValidTransition(sm.current_state, new_state)

\* reset: to IDLE from any state, clearing the error.
StateMachineReset(sm) ==
    [current_state |-> "IDLE", previous_state |-> sm.current_state,
     error |-> None]

(***************************************************************************)
(* CalibrationStore (src/storage/calibration_store.py) and the dictionary  *)
(* form of the records (src/storage/schema.py)                             *)
(***************************************************************************)
NoFile == [kind |-> "absent", content |-> None]
CorruptFile == [kind |-> "corrupt", content |-> None]
FileWith(dict) == [kind |-> "json", content |-> dict]

PointToDict(p) ==
    [screen_x |-> p.screen_x, screen_y |-> p.screen_y, gaze_x |-> p.gaze_x,
     gaze_y |-> p.gaze_y, sample_count |-> p.sample_count]

PointFromDict(d) ==
    [screen_x |-> d.screen_x, screen_y |-> d.screen_y, gaze_x |-> d.gaze_x,
     gaze_y |-> d.gaze_y, sample_count |-> d.sample_count]

ToDict(c) ==
    [version |-> c.version, timestamp |-> c.timestamp,
     screen_width |-> c.screen_width, screen_height |-> c.screen_height,
     points |-> [i \in 1..Len(c.points) |-> PointToDict(c.points[i])]]

\* data.get(key, default)
DictGet(d, key, default) == IF key \in DOMAIN d THEN d[key] ELSE default

\* The mutant of FromDict: the timestamp is always taken anew.
FromDictRestamped(d) ==
    LET pts == DictGet(d, "points", <<>>)
    IN  [version |-> DictGet(d, "version", "1.0"),
         timestamp |-> NowIsoformat,
         screen_width |-> DictGet(d, "screen_width", 0),
         screen_height |-> DictGet(d, "screen_height", 0),
         points |-> [i \in 1..Len(pts) |-> PointFromDict(pts[i])]]

\* CalibrationData.from_dict, with the defaults of data.get and the
\* timestamp that __post_init__ gives a record without one.
FromDict(d) ==
    LET pts == DictGet(d, "points", <<>>)
        ts == DictGet(d, "timestamp", "")
    IN  [version |-> DictGet(d, "version", "1.0"),
         timestamp |-> IF ts = "" THEN NowIsoformat ELSE ts,
         screen_width |-> DictGet(d, "screen_width", 0),
         screen_height |-> DictGet(d, "screen_height", 0),
         points |-> [i \in 1..Len(pts) |-> PointFromDict(pts[i])]]

\* save: the file afterwards and whether CalibrationStoreError was raised.
\* io_ok: the temporary file could be written and moved into place.
StoreSave(file, calibration, io_ok) ==
    IF Validate(calibration) # "ok" \/ ~io_ok
    THEN [file |-> file, raised |-> TRUE]
    ELSE [file |-> FileWith(ToDict(calibration)), raised |-> FALSE]

\* load: the calibration (or None) and whether CalibrationStoreError was raised.
StoreLoad(file) ==
    IF file.kind = "absent"
    THEN [calibration |-> None, raised |-> FALSE]
    ELSE IF file.kind = "corrupt"
    THEN [calibration |-> None, raised |-> TRUE]
    ELSE IF Validate(FromDict(file.content)) # "ok"
    THEN [calibration |-> None, raised |-> TRUE]
    ELSE [calibration |-> FromDict(file.content), raised |-> FALSE]

\* delete: the file afterwards and whether CalibrationStoreError was raised.
StoreDelete(file, io_ok) ==
    IF file.kind = "absent"
    THEN [file |-> file, raised |-> FALSE]
    ELSE IF io_ok
    THEN [file |-> NoFile, raised |-> FALSE]
    ELSE [file |-> file, raised |-> TRUE]

\* The mutant of IsCompatibleWithScreen: the two sizes are compared as
\* unordered pairs.
IsCompatibleWithScreenEitherWay(c, width, height) ==
    {c.screen_width, c.screen_height} = {width, height}

IsCompatibleWithScreen(c, width, height) ==
    c.screen_width = width /\ c.screen_height = height

(***************************************************************************)
(* GazeMapper                                                              *)
(***************************************************************************)
\* np.argmin / np.argmax over column `axis` of the points: the first index
\* that attains the extreme.
ArgMin(points, axis) ==
    CHOOSE i \in 1..Len(points) :
        /\ \A j \in 1..Len(points) : ~FloatLess(points[j][axis], points[i][axis])
        /\ \A j \in 1..(i - 1) : FloatLess(points[i][axis], points[j][axis])

ArgMax(points, axis) ==
    CHOOSE i \in 1..Len(points) :
        /\ \A j \in 1..Len(points) : ~FloatLess(points[i][axis], points[j][axis])
        /\ \A j \in 1..(i - 1) : FloatLess(points[j][axis], points[i][axis])

\* The mutant of ComputeMapping: the screen values at the two ends of each
\* axis are exchanged.
ComputeMappingSwapped(calibration) ==
    LET pts == calibration.points
        idx_min_x == ArgMin(pts, "gaze_x")
        idx_max_x == ArgMax(pts, "gaze_x")
        idx_min_y == ArgMin(pts, "gaze_y")
        idx_max_y == ArgMax(pts, "gaze_y")
    IN  [calibration |-> calibration,
         screen_width |-> calibration.screen_width,
         screen_height |-> calibration.screen_height,
         gaze_min_x |-> pts[idx_min_x].gaze_x,
         gaze_max_x |-> pts[idx_max_x].gaze_x,
         gaze_min_y |-> pts[idx_min_y].gaze_y,
         gaze_max_y |-> pts[idx_max_y].gaze_y,
         screen_at_min_x |-> pts[idx_max_x].screen_x,
         screen_at_max_x |-> pts[idx_min_x].screen_x,
         screen_at_min_y |-> pts[idx_max_y].screen_y,
         screen_at_max_y |-> pts[idx_min_y].screen_y]

\* _compute_mapping: the gaze bounds and the screen values at them.
ComputeMapping(calibration) ==
    LET pts == calibration.points
        idx_min_x == ArgMin(pts, "gaze_x")
        idx_max_x == ArgMax(pts, "gaze_x")
        idx_min_y == ArgMin(pts, "gaze_y")
        idx_max_y == ArgMax(pts, "gaze_y")
    IN  [calibration |-> calibration,
         screen_width |-> calibration.screen_width,
         screen_height |-> calibration.screen_height,
         gaze_min_x |-> pts[idx_min_x].gaze_x,
         gaze_max_x |-> pts[idx_max_x].gaze_x,
         gaze_min_y |-> pts[idx_min_y].gaze_y,
         gaze_max_y |-> pts[idx_max_y].gaze_y,
         screen_at_min_x |-> pts[idx_min_x].screen_x,
         screen_at_max_x |-> pts[idx_max_x].screen_x,
         screen_at_min_y |-> pts[idx_min_y].screen_y,
         screen_at_max_y |-> pts[idx_max_y].screen_y]

\* The mutant of GazeMapperInit: the calibration is not validated; the
\* mapping of a calibration without points is left empty.
GazeMapperInitUnvalidated(calibration) ==
    [error |-> "ok",
     mapper |-> IF calibration.points = <<>>
                THEN [calibration |-> calibration]
                ELSE ComputeMapping(calibration)]

\* GazeMapper(calibration): the mapper constructed, or the message of the
\* ValueError raised (and then no mapper).
GazeMapperInit(calibration) ==
    IF Validate(calibration) # "ok"
    THEN [error |-> Validate(calibration), mapper |-> None]
    ELSE [error |-> "ok", mapper |-> ComputeMapping(calibration)]

(***************************************************************************)
(* GazeMapper.map_gaze_to_screen                                           *)
(***************************************************************************)
\* np.clip of the float f to the whole numbers lo..hi; nan stays nan.
Clip(f, lo, hi) ==
    IF f.kind # "float" THEN NaN
    ELSE IF f.num < lo * f.den THEN Float(lo, 1)
    ELSE IF f.num > hi * f.den THEN Float(hi, 1)
    ELSE f

\* The greatest common divisor of two naturals.
RECURSIVE Gcd(_, _)
Gcd(a, b) == IF b = 0 THEN a ELSE Gcd(b, a % b)

\* The float n / d (d > 0) in lowest terms.
Reduced(n, d) ==
    LET g == Gcd(IF n < 0 THEN -n ELSE n, d)
    IN  Float(n \div g, d \div g)

\* a + b, a - b, a * b and a / b on floats, exactly; nan in, nan out.
FloatAdd(a, b) ==
    IF a.kind # "float" \/ b.kind # "float" THEN NaN
    ELSE Reduced(a.num * b.den + b.num * a.den, a.den * b.den)

FloatSub(a, b) ==
    IF a.kind # "float" \/ b.kind # "float" THEN NaN
    ELSE Reduced(a.num * b.den - b.num * a.den, a.den * b.den)

FloatMul(a, b) ==
    IF a.kind # "float" \/ b.kind # "float" THEN NaN
    ELSE Reduced(a.num * b.num, a.den * b.den)

FloatDiv(a, b) ==
    IF a.kind # "float" \/ b.kind # "float" THEN NaN
    \* numpy divides by zero to inf or nan: not a number either way
    ELSE IF b.num = 0 THEN NaN
    ELSE IF b.num > 0 THEN Reduced(a.num * b.den, a.den * b.num)
    ELSE Reduced(-(a.num * b.den), -(a.den * b.num))

\* The mutant of Interpolate: t is kept within [0, 1].
InterpolateRestricted(g, lo, hi, s_lo, s_hi, dimension) ==
    IF ~FloatEq(hi, lo)
    THEN LET t == FloatDiv(FloatSub(Float(g, 1), lo), FloatSub(hi, lo))
             t_in == IF FloatLess(t, Float(0, 1)) THEN Float(0, 1)
                     ELSE IF FloatLess(Float(1, 1), t) THEN Float(1, 1)
                     ELSE t
         IN  FloatAdd(s_lo, FloatMul(t_in, FloatSub(s_hi, s_lo)))
    ELSE Float(dimension, 2)

\* The mutant of Interpolate: equal gaze bounds are not looked for.
InterpolateUnguarded(g, lo, hi, s_lo, s_hi, dimension) ==
    LET t == FloatDiv(FloatSub(Float(g, 1), lo), FloatSub(hi, lo))
    IN  FloatAdd(s_lo, FloatMul(t, FloatSub(s_hi, s_lo)))

\* One axis of the linear interpolation: gaze g (hundredths) between the
\* gaze bounds lo and hi is sent between the screen values s_lo and s_hi;
\* equal bounds send every gaze to the middle of the dimension.
Interpolate(g, lo, hi, s_lo, s_hi, dimension) ==
    IF ~FloatEq(hi, lo)
    THEN LET t == FloatDiv(FloatSub(Float(g, 1), lo), FloatSub(hi, lo))
         IN  FloatAdd(s_lo, FloatMul(t, FloatSub(s_hi, s_lo)))
    ELSE Float(dimension, 2)

\* The mutant of MapGazeToScreen: the interpolation is returned unclamped.
MapGazeToScreenUnclamped(m, gaze) ==
    [x |-> Interpolate(gaze.x, m.gaze_min_x, m.gaze_max_x,
                       m.screen_at_min_x, m.screen_at_max_x, m.screen_width),
     y |-> Interpolate(gaze.y, m.gaze_min_y, m.gaze_max_y,
                       m.screen_at_min_y, m.screen_at_max_y, m.screen_height)]

\* map_gaze_to_screen: the pixel position as two exact floats.
MapGazeToScreen(m, gaze) ==
    [x |-> Clip(Interpolate(gaze.x, m.gaze_min_x, m.gaze_max_x,
                            m.screen_at_min_x, m.screen_at_max_x,
                            m.screen_width),
                0, m.screen_width - 1),
     y |-> Clip(Interpolate(gaze.y, m.gaze_min_y, m.gaze_max_y,
                            m.screen_at_min_y, m.screen_at_max_y,
                            m.screen_height),
                0, m.screen_height - 1)]

(***************************************************************************)
(* GazeSmoother (src/vision/smoothing.py).  Positions inside the smoother  *)
(* are kept in hundredths of a pixel; a product or quotient is rounded     *)
(* toward zero to that grid.  An Optional float is <<>> or <<value>>.       *)
(***************************************************************************)
DefaultGazeConfig ==
    [smoothing_factor |-> 20,   \* 0.2, in hundredths
     dead_zone_radius |-> 35,   \* 0.035, in thousandths
     max_velocity |-> 35,       \* pixels per frame
     sensitivity |-> 80,        \* 0.8, in hundredths
     freeze_on_face_lost |-> TRUE]

Min(a, b) == IF a < b THEN a ELSE b
Max(a, b) == IF a > b THEN a ELSE b

\* int(a / b) for b > 0: rounding toward zero.
TruncDiv(a, b) == IF a >= 0 THEN a \div b ELSE -((-a) \div b)

\* The float f on the grid of hundredths of a pixel.
ToCenti(f) == TruncDiv(f.num * 100, f.den)

RECURSIVE ISqrtIn(_, _, _)
ISqrtIn(n, lo, hi) ==
    IF lo >= hi THEN lo
    ELSE LET mid == (lo + hi + 1) \div 2
         IN  IF mid * mid <= n THEN ISqrtIn(n, mid, hi)
             ELSE ISqrtIn(n, lo, mid - 1)

\* np.sqrt on the grid: the largest r with r * r <= n.
ISqrt(n) == ISqrtIn(n, 0, Min(n, 46340))

DeadZonePixels(gc, width, height) ==
    (gc.dead_zone_radius * Min(width, height)) \div 1000

NewSmoother(gc, width, height) ==
    [smoothed_x |-> <<>>, smoothed_y |-> <<>>,
     dead_zone_pixels |-> DeadZonePixels(gc, width, height),
     screen_width |-> width, screen_height |-> height]

SmootherReset(sm) == [sm EXCEPT !.smoothed_x = <<>>, !.smoothed_y = <<>>]

SmootherUpdateConfig(sm, gc) ==
    [sm EXCEPT !.dead_zone_pixels =
                   DeadZonePixels(gc, sm.screen_width, sm.screen_height)]

\* The mutant of SmootherUpdateScreenSize: the dead zone is not recomputed.
SmootherUpdateScreenSizeStale(sm, gc, width, height) ==
    [sm EXCEPT !.screen_width = width, !.screen_height = height]

\* update_screen_size(width, height): the position is kept as it is.
SmootherUpdateScreenSize(sm, gc, width, height) ==
    [sm EXCEPT !.screen_width = width, !.screen_height = height,
               !.dead_zone_pixels = DeadZonePixels(gc, width, height)]

\* The mutant of Smooth: the first position is clamped to the screen
\* before it is adopted and returned.
SmoothFirstClamped(sm, gc, screen_x, screen_y) ==
    LET first_x == Max(0, Min(screen_x, (sm.screen_width - 1) * 100))
        first_y == Max(0, Min(screen_y, (sm.screen_height - 1) * 100))
    IN  [smoother |-> [sm EXCEPT !.smoothed_x = <<first_x>>,
                                 !.smoothed_y = <<first_y>>],
         x |-> TruncDiv(first_x, 100), y |-> TruncDiv(first_y, 100),
         velocity |-> 0]

\* The mutant of Smooth: the displacement is limited to max_velocity
\* before it is multiplied by the sensitivity.
SmoothLimitBeforeSensitivity(sm, gc, screen_x, screen_y) ==
    IF sm.smoothed_x = <<>> \/ sm.smoothed_y = <<>>
    THEN [smoother |-> [sm EXCEPT !.smoothed_x = <<screen_x>>,
                                  !.smoothed_y = <<screen_y>>],
          x |-> TruncDiv(screen_x, 100), y |-> TruncDiv(screen_y, 100),
          velocity |-> 0]
    ELSE
    LET old_x == sm.smoothed_x[1]
        old_y == sm.smoothed_y[1]
        dx == screen_x - old_x
        dy == screen_y - old_y
        distance == ISqrt(dx * dx + dy * dy)
        limited == distance > gc.max_velocity * 100
        dx1 == IF limited
               THEN TruncDiv(dx * gc.max_velocity * 100, distance) ELSE dx
        dy1 == IF limited
               THEN TruncDiv(dy * gc.max_velocity * 100, distance) ELSE dy
        distance1 == IF limited THEN gc.max_velocity * 100 ELSE distance
        dx2 == TruncDiv(dx1 * gc.sensitivity, 100)
        dy2 == TruncDiv(dy1 * gc.sensitivity, 100)
        distance2 == TruncDiv(distance1 * gc.sensitivity, 100)
        new_x == Max(0, Min(old_x + TruncDiv(gc.smoothing_factor * dx2, 100),
                            (sm.screen_width - 1) * 100))
        new_y == Max(0, Min(old_y + TruncDiv(gc.smoothing_factor * dy2, 100),
                            (sm.screen_height - 1) * 100))
    IN  IF dx * dx + dy * dy
              < (sm.dead_zone_pixels * 100) * (sm.dead_zone_pixels * 100)
        THEN [smoother |-> sm,
              x |-> TruncDiv(old_x, 100), y |-> TruncDiv(old_y, 100),
              velocity |-> 0]
        ELSE [smoother |-> [sm EXCEPT !.smoothed_x = <<new_x>>,
                                      !.smoothed_y = <<new_y>>],
              x |-> TruncDiv(new_x, 100), y |-> TruncDiv(new_y, 100),
              velocity |-> distance2]

\* The mutant of Smooth: the dead zone is tested on the displacement
\* already multiplied by the sensitivity.
SmoothDeadZoneAfterSensitivity(sm, gc, screen_x, screen_y) ==
    IF sm.smoothed_x = <<>> \/ sm.smoothed_y = <<>>
    THEN [smoother |-> [sm EXCEPT !.smoothed_x = <<screen_x>>,
                                  !.smoothed_y = <<screen_y>>],
          x |-> TruncDiv(screen_x, 100), y |-> TruncDiv(screen_y, 100),
          velocity |-> 0]
    ELSE
    LET old_x == sm.smoothed_x[1]
        old_y == sm.smoothed_y[1]
        dx == screen_x - old_x
        dy == screen_y - old_y
        distance == ISqrt(dx * dx + dy * dy)
        dx1 == TruncDiv(dx * gc.sensitivity, 100)
        dy1 == TruncDiv(dy * gc.sensitivity, 100)
        distance1 == TruncDiv(distance * gc.sensitivity, 100)
        limited == distance1 > gc.max_velocity * 100
        dx2 == IF limited
               THEN TruncDiv(dx1 * gc.max_velocity * 100, distance1) ELSE dx1
        dy2 == IF limited
               THEN TruncDiv(dy1 * gc.max_velocity * 100, distance1) ELSE dy1
        distance2 == IF limited THEN gc.max_velocity * 100 ELSE distance1
        new_x == Max(0, Min(old_x + TruncDiv(gc.smoothing_factor * dx2, 100),
                            (sm.screen_width - 1) * 100))
        new_y == Max(0, Min(old_y + TruncDiv(gc.smoothing_factor * dy2, 100),
                            (sm.screen_height - 1) * 100))
    IN  IF distance1 < sm.dead_zone_pixels * 100
        THEN [smoother |-> sm,
              x |-> TruncDiv(old_x, 100), y |-> TruncDiv(old_y, 100),
              velocity |-> 0]
        ELSE [smoother |-> [sm EXCEPT !.smoothed_x = <<new_x>>,
                                      !.smoothed_y = <<new_y>>],
              x |-> TruncDiv(new_x, 100), y |-> TruncDiv(new_y, 100),
              velocity |-> distance2]

\* smooth(screen_x, screen_y), both in hundredths of a pixel: the smoother
\* afterwards and the SmoothedGaze returned (x, y in whole pixels, velocity
\* in hundredths of a pixel per frame).
Smooth(sm, gc, screen_x, screen_y) ==
    IF sm.smoothed_x = <<>> \/ sm.smoothed_y = <<>>
    THEN [smoother |-> [sm EXCEPT !.smoothed_x = <<screen_x>>,
                                  !.smoothed_y = <<screen_y>>],
          x |-> TruncDiv(screen_x, 100), y |-> TruncDiv(screen_y, 100),
          velocity |-> 0]
    ELSE
    LET old_x == sm.smoothed_x[1]
        old_y == sm.smoothed_y[1]
        dx == screen_x - old_x
        dy == screen_y - old_y
        distance == ISqrt(dx * dx + dy * dy)
        dx1 == TruncDiv(dx * gc.sensitivity, 100)
        dy1 == TruncDiv(dy * gc.sensitivity, 100)
        distance1 == TruncDiv(distance * gc.sensitivity, 100)
        limited == distance1 > gc.max_velocity * 100
        dx2 == IF limited
               THEN TruncDiv(dx1 * gc.max_velocity * 100, distance1) ELSE dx1
        dy2 == IF limited
               THEN TruncDiv(dy1 * gc.max_velocity * 100, distance1) ELSE dy1
        distance2 == IF limited THEN gc.max_velocity * 100 ELSE distance1
        new_x == Max(0, Min(old_x + TruncDiv(gc.smoothing_factor * dx2, 100),
                            (sm.screen_width - 1) * 100))
        new_y == Max(0, Min(old_y + TruncDiv(gc.smoothing_factor * dy2, 100),
                            (sm.screen_height - 1) * 100))
    IN  IF dx * dx + dy * dy
              < (sm.dead_zone_pixels * 100) * (sm.dead_zone_pixels * 100)
        THEN [smoother |-> sm,
              x |-> TruncDiv(old_x, 100), y |-> TruncDiv(old_y, 100),
              velocity |-> 0]
        ELSE [smoother |-> [sm EXCEPT !.smoothed_x = <<new_x>>,
                                      !.smoothed_y = <<new_y>>],
              x |-> TruncDiv(new_x, 100), y |-> TruncDiv(new_y, 100),
              velocity |-> distance2]

(***************************************************************************)
(* CursorController.move_to (src/os_control/cursor_controller.py)          *)
(***************************************************************************)
\* The mouse position afterwards.  rate_ok: at least min_update_interval
\* has passed since the last move.
MoveTo(position, enabled, rate_ok, x, y, width, height) ==
    IF ~enabled \/ ~rate_ok
    THEN position
    ELSE <<Max(0, Min(x, width - 1)), Max(0, Min(y, height - 1))>>

(***************************************************************************)
(* Controller (src/core/controller.py).  An Optional tuple or time is <<>>  *)
(* or the value; the clock is read relative to the time last stored in     *)
(* calibration_countdown_start, the only time the Controller compares with. *)
(***************************************************************************)
\* The worker between two calls of process_frame.
IdleWorker ==
    [pc |-> "idle", current_state |-> "None", gaze |-> NominalGaze,
     cal_state |-> "None"]

InitController ==
    /\ app = NewStateMachine
    /\ camera_open = FALSE
    /\ gaze_config = DefaultGazeConfig
    /\ smoother = NewSmoother(DefaultGazeConfig, screen_width, screen_height)
    /\ tracking_enabled = FALSE
    /\ cursor_enabled = TRUE
    /\ mouse_position = <<0, 0>>
    /\ last_cursor_pos = <<>>
    /\ calibration_countdown_start = <<>>
    /\ now = 0
    /\ frame_result = None
    /\ worker = IdleWorker
    /\ visited = {}
    /\ waited = 0

\* _load_calibration: whether it returned True, and the mapper it created.
\* The mutant of LoadCalibration: the screen size is not compared.
LoadCalibrationAnyScreen(file, width, height) ==
    LET ld == StoreLoad(file)
    IN  IF ld.raised \/ ld.calibration = None
        THEN [ok |-> FALSE, mapper |-> None]
        ELSE [ok |-> TRUE, mapper |-> GazeMapperInit(ld.calibration).mapper]

\* _load_calibration: whether it succeeded and the mapper it installs.
LoadCalibration(file, width, height) ==
    LET ld == StoreLoad(file)
    IN  IF ld.raised \/ ld.calibration = None
        THEN [ok |-> FALSE, mapper |-> None]
        ELSE IF ~IsCompatibleWithScreen(ld.calibration, width, height)
        THEN [ok |-> FALSE, mapper |-> None]
        ELSE [ok |-> TRUE, mapper |-> GazeMapperInit(ld.calibration).mapper]

\* The mutant of ControllerFinalizeCalibration: the mapper is installed
\* before the data is saved.
ControllerFinalizeCalibrationMapperFirst(c, sm, file, mapper, is_open, io_ok) ==
    LET calibration_data == c.calibration_data
        saved == StoreSave(file, calibration_data, io_ok)
    IN  IF calibration_data = None
        THEN [app |-> SetError(sm, ErrorInfo("CalibrationError",
                                   "Calibration failed to finalize", TRUE)),
              store_file |-> file, gaze_mapper |-> mapper,
              camera_open |-> is_open]
        ELSE IF saved.raised
        THEN [app |-> SetError(sm, ErrorInfo("StorageError",
                                   "Failed to save calibration", TRUE)),
              store_file |-> saved.file,
              gaze_mapper |-> GazeMapperInit(calibration_data).mapper,
              camera_open |-> is_open]
        ELSE [app |-> TransitionTo(sm, "IDLE"),
              store_file |-> saved.file,
              gaze_mapper |-> GazeMapperInit(calibration_data).mapper,
              camera_open |-> FALSE]

\* Controller._finalize_calibration for the calibrator c: what it leaves in
\* the state machine, the file, the mapper and the camera.
\* io_ok: the store could write its file.
ControllerFinalizeCalibration(c, sm, file, mapper, is_open, io_ok) ==
    LET calibration_data == c.calibration_data
        saved == StoreSave(file, calibration_data, io_ok)
    IN  IF calibration_data = None
        THEN [app |-> SetError(sm, ErrorInfo("CalibrationError",
                                   "Calibration failed to finalize", TRUE)),
              store_file |-> file, gaze_mapper |-> mapper,
              camera_open |-> is_open]
        ELSE IF saved.raised
        THEN [app |-> SetError(sm, ErrorInfo("StorageError",
                                   "Failed to save calibration", TRUE)),
              store_file |-> saved.file, gaze_mapper |-> mapper,
              camera_open |-> is_open]
        ELSE [app |-> TransitionTo(sm, "IDLE"),
              store_file |-> saved.file,
              gaze_mapper |-> GazeMapperInit(calibration_data).mapper,
              camera_open |-> FALSE]

\* The mutant of ProcessCalibrationFrame: the countdown is not waited for.
ProcessCalibrationFrameNoWait(c, cal_state, gaze, countdown_start, t) ==
    IF cal_state = "COUNTDOWN"
    THEN [cal |-> CalSetState(c, "COLLECTING"),
          countdown_start |-> countdown_start, finalize |-> FALSE,
          raised |-> "None"]
    ELSE IF cal_state = "COLLECTING"
    THEN LET r == CalAddSample(c, gaze)
             raised == r.ret = "IndexError"
         IN  [cal |-> r.cal,
              countdown_start |-> IF ~raised /\ r.cal.state = "COUNTDOWN"
                                  THEN <<t>> ELSE countdown_start,
              finalize |-> ~raised /\ r.cal.state = "COMPLETED",
              raised |-> IF raised THEN r.ret ELSE "None"]
    ELSE [cal |-> c, countdown_start |-> countdown_start,
          finalize |-> FALSE, raised |-> "None"]

\* _process_calibration_frame at time t, up to its call of
\* _finalize_calibration.  cal_state is its local variable, the state it read
\* from the calibrator c.  Yields the calibrator and the countdown start
\* afterwards, whether _finalize_calibration is called, and the exception
\* that escaped.
ProcessCalibrationFrame(c, cal_state, gaze, countdown_start, t) ==
    IF cal_state = "COUNTDOWN"
    THEN [cal |-> IF t - countdown_start[1] >= config.countdown_seconds
                  THEN CalSetState(c, "COLLECTING") ELSE c,
          countdown_start |-> countdown_start, finalize |-> FALSE,
          raised |-> "None"]
    ELSE IF cal_state = "COLLECTING"
    THEN LET r == CalAddSample(c, gaze)
             raised == r.ret = "IndexError"
         IN  [cal |-> r.cal,
              countdown_start |-> IF ~raised /\ r.cal.state = "COUNTDOWN"
                                  THEN <<t>> ELSE countdown_start,
              finalize |-> ~raised /\ r.cal.state = "COMPLETED",
              raised |-> IF raised THEN r.ret ELSE "None"]
    ELSE [cal |-> c, countdown_start |-> countdown_start,
          finalize |-> FALSE, raised |-> "None"]

\* The mutant of TrackingReturnsEarly: the tracking switch is not looked at.
TrackingReturnsEarlyMapperOnly(mapper, enabled) == mapper = None

\* The two early returns of _process_tracking_frame.
TrackingReturnsEarly(mapper, enabled) == mapper = None \/ ~enabled

TrackingEarlyResult(mapper, last_pos) ==
    IF mapper = None THEN <<>> ELSE last_pos

\* The rest of _process_tracking_frame: map, smooth, move the cursor and
\* remember the position.  self._gaze_mapper is read again here: raised is
\* the AttributeError of calling a method of None.
MapSmoothMove(mapper, sm, gc, last_pos, position, cursor_on, rate_ok, gaze) ==
    IF mapper = None
    THEN [raised |-> "AttributeError", cursor_pos |-> <<>>, smoother |-> sm,
          mouse_position |-> position, last_cursor_pos |-> last_pos]
    ELSE LET screen == MapGazeToScreen(mapper, gaze)
             smoothed == Smooth(sm, gc, ToCenti(screen.x), ToCenti(screen.y))
         IN  [raised |-> "None",
              cursor_pos |-> <<smoothed.x, smoothed.y>>,
              smoother |-> smoothed.smoother,
              mouse_position |-> MoveTo(position, cursor_on, rate_ok,
                                        smoothed.x, smoothed.y,
                                        screen_width, screen_height),
              last_cursor_pos |-> <<smoothed.x, smoothed.y>>]

\* _process_tracking_frame: the cursor position returned (<<>> is None) and
\* what is left in the smoother, the mouse and _last_cursor_pos.
ProcessTrackingFrame(mapper, enabled, sm, gc, last_pos, position, cursor_on, rate_ok, gaze) ==
    IF TrackingReturnsEarly(mapper, enabled)
    THEN [raised |-> "None",
          cursor_pos |-> TrackingEarlyResult(mapper, last_pos),
          smoother |-> sm, mouse_position |-> position,
          last_cursor_pos |-> last_pos]
    ELSE MapSmoothMove(mapper, sm, gc, last_pos, position, cursor_on,
                       rate_ok, gaze)

FrameProcessingResult(success, face_detected, gaze, cursor_pos) ==
    [success |-> success, face_detected |-> face_detected, gaze |-> gaze,
     cursor_pos |-> cursor_pos]

\* What the camera, the face tracker and the estimator can make of a frame.
FrameKinds == {"no_frame", "no_face", "no_gaze", "gaze"}
\* The user keeps looking at one place (SpecCal gives the calibrator its
\* varied samples).
FrameGazes == {NominalGaze}

(***************************************************************************)
(* Spec: the operations of the Controller, called one at a time.           *)
(***************************************************************************)
\* A calibration saved earlier on this screen, and one saved on another.
StoredCalibration ==
    NewCalibrationData(200, 100,
        << [screen_x |-> Float(100, 1), screen_y |-> Float(50, 1), gaze_x |-> Float(0, 1),
            gaze_y |-> Float(0, 1), sample_count |-> 10],
           [screen_x |-> Float(30, 1), screen_y |-> Float(50, 1), gaze_x |-> Float(-80, 1),
            gaze_y |-> Float(0, 1), sample_count |-> 10],
           [screen_x |-> Float(170, 1), screen_y |-> Float(50, 1), gaze_x |-> Float(80, 1),
            gaze_y |-> Float(0, 1), sample_count |-> 10],
           [screen_x |-> Float(100, 1), screen_y |-> Float(15, 1), gaze_x |-> Float(0, 1),
            gaze_y |-> Float(-80, 1), sample_count |-> 10],
           [screen_x |-> Float(100, 1), screen_y |-> Float(85, 1), gaze_x |-> Float(0, 1),
            gaze_y |-> Float(80, 1), sample_count |-> 10] >>)

OtherScreenCalibration ==
    [StoredCalibration EXCEPT !.screen_width = 100, !.screen_height = 200]

\* A record that validate() refuses: two points only.
TwoPointCalibration ==
    [StoredCalibration EXCEPT !.points = SubSeq(@, 1, MinPoints - 1)]

StoreFileChoices ==
    {NoFile, CorruptFile, FileWith(ToDict(StoredCalibration)),
     FileWith(ToDict(OtherScreenCalibration)),
     FileWith(ToDict(TwoPointCalibration))}

\* AppConfig accepts any list of target positions, the empty one included.
ControllerTargetPositionChoices ==
    {SubSeq(DefaultTargetPositions, 1, n) : n \in (MinPoints - 1)..MaxTargets}
        \cup {<<>>}

Init ==
    /\ config \in [samples_per_point : {MinSamplesPerPoint},
                   countdown_seconds : {DefaultCountdownSeconds},
                   target_positions : ControllerTargetPositionChoices,
                   outlier_trim_percent : {DefaultTrimPercent}]
    /\ \E s \in ScreenSizes : screen_width = s[1] /\ screen_height = s[2]
    /\ cal = NewCalibrator
    /\ calibration_input = None
    /\ call = NoCall
    /\ smooth_calls = 0
    /\ gaze_mapper = None
    /\ InitController
    /\ store_file \in StoreFileChoices
    /\ odd_frames = 0
    /\ last_op = Op("init", NoArg)
    /\ ret = "None"

\* One second passes.  The clock is read only while a countdown runs, and
\* not compared beyond countdown_seconds.
Tick ==
    /\ app.current_state = "CALIBRATING"
    /\ cal.state = "COUNTDOWN"
    /\ now < config.countdown_seconds
    /\ now' = now + 1
    /\ waited' = Min(waited + 1, config.countdown_seconds)
    /\ UNCHANGED <<calVars, calibration_input, call, smooth_calls, gaze_mapper, app, camera_open,
                   gaze_config, smoother, tracking_enabled, cursor_enabled,
                   mouse_position, last_cursor_pos,
                   calibration_countdown_start, store_file, frame_result,
                   visited, odd_frames,
                   worker, last_op, ret>>

\* The mutant of StartTracking: tracking starts whether or not there is a
\* mapper.
StartTrackingWithoutCalibration(camera_ok) ==
    /\ LET ld == LoadCalibration(store_file, screen_width, screen_height)
           mapper == IF gaze_mapper = None /\ ld.ok
                     THEN ld.mapper ELSE gaze_mapper
       IN  IF ~CanTransitionTo(app, "TRACKING")
           THEN /\ ret' = "False"
                /\ UNCHANGED <<app, gaze_mapper, camera_open, cursor_enabled,
                               smoother, tracking_enabled>>
           ELSE IF ~camera_open /\ ~camera_ok
           THEN /\ gaze_mapper' = mapper
                /\ app' = SetError(app, ErrorInfo("CameraError",
                              "Failed to open camera", TRUE))
                /\ ret' = "False"
                /\ UNCHANGED <<camera_open, cursor_enabled, smoother,
                               tracking_enabled>>
           ELSE /\ gaze_mapper' = mapper
                /\ camera_open' = TRUE
                /\ cursor_enabled' = TRUE
                /\ smoother' = SmootherReset(smoother)
                /\ tracking_enabled' = TRUE
                /\ app' = TransitionTo(app, "TRACKING")
                /\ ret' = "True"
    /\ last_op' = Op("start_tracking", NoArg)
    /\ frame_result' = None
    /\ UNCHANGED <<calVars, calibration_input, call, smooth_calls, gaze_config, mouse_position,
                   last_cursor_pos, calibration_countdown_start, store_file,
                   now, visited, waited, odd_frames, worker>>

\* camera_ok: the camera can be opened.
StartTracking(camera_ok) ==
    /\ LET ld == LoadCalibration(store_file, screen_width, screen_height)
           mapper == IF gaze_mapper = None /\ ld.ok
                     THEN ld.mapper ELSE gaze_mapper
       IN  IF ~CanTransitionTo(app, "TRACKING")
           THEN /\ ret' = "False"
                /\ UNCHANGED <<app, gaze_mapper, camera_open, cursor_enabled,
                               smoother, tracking_enabled>>
           ELSE IF mapper = None
           THEN /\ app' = SetError(app, ErrorInfo("CalibrationError",
                              "No calibration found. Please calibrate first.",
                              TRUE))
                /\ ret' = "False"
                /\ UNCHANGED <<gaze_mapper, camera_open, cursor_enabled,
                               smoother, tracking_enabled>>
           ELSE IF ~camera_open /\ ~camera_ok
           THEN /\ gaze_mapper' = mapper
                /\ app' = SetError(app, ErrorInfo("CameraError",
                              "Failed to open camera", TRUE))
                /\ ret' = "False"
                /\ UNCHANGED <<camera_open, cursor_enabled, smoother,
                               tracking_enabled>>
           ELSE /\ gaze_mapper' = mapper
                /\ camera_open' = TRUE
                /\ cursor_enabled' = TRUE
                /\ smoother' = SmootherReset(smoother)
                /\ tracking_enabled' = TRUE
                /\ app' = TransitionTo(app, "TRACKING")
                /\ ret' = "True"
    /\ last_op' = Op("start_tracking", NoArg)
    /\ frame_result' = None
    /\ UNCHANGED <<calVars, calibration_input, call, smooth_calls, gaze_config, mouse_position,
                   last_cursor_pos, calibration_countdown_start, store_file,
                   now, visited, waited, odd_frames, worker>>

\* The mutant of StopTracking: the camera is left open.
StopTrackingKeepCamera ==
    /\ IF app.current_state = "TRACKING"
       THEN /\ tracking_enabled' = FALSE
            /\ cursor_enabled' = FALSE
            /\ app' = TransitionTo(app, "IDLE")
            /\ ret' = "True"
            /\ UNCHANGED camera_open
       ELSE /\ ret' = "False"
            /\ UNCHANGED <<tracking_enabled, cursor_enabled, camera_open, app>>
    /\ last_op' = Op("stop_tracking", NoArg)
    /\ frame_result' = None
    /\ UNCHANGED <<calVars, calibration_input, call, smooth_calls, gaze_mapper, gaze_config,
                   smoother, mouse_position, last_cursor_pos,
                   calibration_countdown_start, store_file, now,
                   visited, waited, odd_frames, worker>>

StopTracking ==
    /\ IF app.current_state = "TRACKING"
       THEN /\ tracking_enabled' = FALSE
            /\ cursor_enabled' = FALSE
            /\ camera_open' = FALSE
            /\ app' = TransitionTo(app, "IDLE")
            /\ ret' = "True"
       ELSE /\ ret' = "False"
            /\ UNCHANGED <<tracking_enabled, cursor_enabled, camera_open, app>>
    /\ last_op' = Op("stop_tracking", NoArg)
    /\ frame_result' = None
    /\ UNCHANGED <<calVars, calibration_input, call, smooth_calls, gaze_mapper, gaze_config,
                   smoother, mouse_position, last_cursor_pos,
                   calibration_countdown_start, store_file, now,
                   visited, waited, odd_frames, worker>>

PauseTracking ==
    /\ IF app.current_state = "TRACKING"
       THEN /\ cursor_enabled' = FALSE
            /\ app' = TransitionTo(app, "PAUSED")
            /\ ret' = "True"
       ELSE /\ ret' = "False"
            /\ UNCHANGED <<cursor_enabled, app>>
    /\ last_op' = Op("pause_tracking", NoArg)
    /\ frame_result' = None
    /\ UNCHANGED <<calVars, calibration_input, call, smooth_calls, gaze_mapper, camera_open,
                   gaze_config, smoother, tracking_enabled, mouse_position,
                   last_cursor_pos, calibration_countdown_start, store_file,
                   now, visited, waited, odd_frames, worker>>

ResumeTracking ==
    /\ IF app.current_state = "PAUSED"
       THEN /\ cursor_enabled' = TRUE
            /\ smoother' = SmootherReset(smoother)
            /\ app' = TransitionTo(app, "TRACKING")
            /\ ret' = "True"
       ELSE /\ ret' = "False"
            /\ UNCHANGED <<cursor_enabled, smoother, app>>
    /\ last_op' = Op("resume_tracking", NoArg)
    /\ frame_result' = None
    /\ UNCHANGED <<calVars, calibration_input, call, smooth_calls, gaze_mapper, camera_open,
                   gaze_config, tracking_enabled, mouse_position,
                   last_cursor_pos, calibration_countdown_start, store_file,
                   now, visited, waited, odd_frames, worker>>

StartCalibration(camera_ok) ==
    /\ IF ~CanTransitionTo(app, "CALIBRATING")
       THEN /\ ret' = "False"
            /\ UNCHANGED <<app, camera_open, cal,
                           calibration_countdown_start, now, visited, waited>>
       ELSE IF ~camera_open /\ ~camera_ok
       THEN /\ app' = SetError(app, ErrorInfo("CameraError",
                          "Failed to open camera", TRUE))
            /\ ret' = "False"
            /\ UNCHANGED <<camera_open, cal, calibration_countdown_start,
                           now, visited, waited>>
       ELSE /\ camera_open' = TRUE
            /\ cal' = CalSetState(CalStart(cal), "COUNTDOWN")
            /\ calibration_countdown_start' = <<0>>
            /\ now' = 0
            /\ app' = TransitionTo(app, "CALIBRATING")
            /\ ret' = "True"
            /\ visited' = {}
            /\ waited' = 0
    /\ last_op' = Op("start_calibration", NoArg)
    /\ frame_result' = None
    /\ UNCHANGED <<config, screen_width, screen_height, calibration_input, call, smooth_calls,
                   gaze_mapper, gaze_config, smoother, tracking_enabled,
                   cursor_enabled, mouse_position, last_cursor_pos,
                   store_file, odd_frames, worker>>

\* History: which targets have been collected since the last start(), and
\* the seconds waited start again when a countdown is entered.
HistoryStep ==
    /\ visited' = IF cal'.state = "COLLECTING"
                  THEN visited \cup {cal'.current_target_index}
                  ELSE visited
    /\ waited' = IF cal'.state = "COUNTDOWN" /\ cal.state # "COUNTDOWN"
                 THEN 0 ELSE waited

\* What process_frame leaves when it returns before the state-specific
\* processing, or when the state is neither CALIBRATING nor TRACKING.
FrameReturns(result) ==
    /\ frame_result' = result
    /\ ret' = "result"
    /\ UNCHANGED <<cal, calibration_countdown_start, now, app, store_file,
                   gaze_mapper, camera_open, smoother, mouse_position,
                   last_cursor_pos, visited, waited>>

\* What a frame leaves in CALIBRATING: r is what _process_calibration_frame
\* did, and _finalize_calibration follows when r asks for it.
CalibrationFrameEffects(r, gaze, io_ok) ==
    LET f == ControllerFinalizeCalibration(r.cal, app, store_file,
                 gaze_mapper, camera_open, io_ok)
    IN  /\ cal' = r.cal
        /\ calibration_countdown_start' =
               IF r.countdown_start = <<>> THEN <<>> ELSE <<0>>
        /\ now' = IF r.countdown_start = <<>>
                  THEN now ELSE now - r.countdown_start[1]
        /\ IF r.finalize
           THEN /\ app' = f.app
                /\ store_file' = f.store_file
                /\ gaze_mapper' = f.gaze_mapper
                /\ camera_open' = f.camera_open
           ELSE UNCHANGED <<app, store_file, gaze_mapper, camera_open>>
        /\ frame_result' = IF r.raised # "None" THEN None
                           ELSE FrameProcessingResult(TRUE, TRUE, gaze, <<>>)
        /\ ret' = IF r.raised # "None" THEN r.raised ELSE "result"
        /\ HistoryStep
        /\ UNCHANGED <<smoother, mouse_position, last_cursor_pos>>

\* What a frame leaves in TRACKING: r is what _process_tracking_frame did.
TrackingFrameEffects(r, gaze) ==
    /\ smoother' = r.smoother
    /\ mouse_position' = r.mouse_position
    /\ last_cursor_pos' = r.last_cursor_pos
    /\ frame_result' = IF r.raised # "None" THEN None
                       ELSE FrameProcessingResult(TRUE, TRUE, gaze, r.cursor_pos)
    /\ ret' = IF r.raised # "None" THEN r.raised ELSE "result"
    /\ UNCHANGED <<cal, calibration_countdown_start, now, app, store_file,
                   gaze_mapper, camera_open, visited, waited>>

\* The cursor position reported when no face or no gaze was found.
FrozenCursor(current_state) ==
    IF current_state = "TRACKING" /\ gaze_config.freeze_on_face_lost
    THEN last_cursor_pos ELSE <<>>

\* process_frame.  kind: how far the frame gets through the camera, the
\* face tracker and the estimator; gaze: the estimate; io_ok: the store can
\* write; rate_ok: the cursor is not rate limited.
ProcessFrame(kind, gaze, io_ok, rate_ok) ==
    /\ ~camera_open => kind = "no_frame"
    /\ kind # "gaze" => gaze = NominalGaze
    /\ gaze # NominalGaze => odd_frames < MaxOddFrames
    /\ odd_frames' = IF gaze # NominalGaze THEN odd_frames + 1 ELSE odd_frames
    /\ LET current_state == app.current_state
       IN  IF kind = "no_frame"
           THEN FrameReturns(FrameProcessingResult(FALSE, FALSE, None, <<>>))
           ELSE IF kind = "no_face"
           THEN FrameReturns(FrameProcessingResult(FALSE, FALSE, None,
                                 FrozenCursor(current_state)))
           ELSE IF kind = "no_gaze"
           THEN FrameReturns(FrameProcessingResult(FALSE, TRUE, None,
                                 FrozenCursor(current_state)))
           ELSE IF current_state = "CALIBRATING"
           THEN CalibrationFrameEffects(
                    ProcessCalibrationFrame(cal, cal.state, gaze,
                        calibration_countdown_start, now),
                    gaze, io_ok)
           ELSE IF current_state = "TRACKING"
           THEN TrackingFrameEffects(
                    ProcessTrackingFrame(gaze_mapper, tracking_enabled,
                        smoother, gaze_config, last_cursor_pos,
                        mouse_position, cursor_enabled, rate_ok, gaze),
                    gaze)
           ELSE FrameReturns(FrameProcessingResult(TRUE, TRUE, gaze, <<>>))
    /\ last_op' = Op("process_frame", gaze)
    /\ UNCHANGED <<config, screen_width, screen_height, calibration_input, call, smooth_calls,
                   gaze_config, tracking_enabled, cursor_enabled, worker>>

DeleteCalibration(io_ok) ==
    /\ LET deleted == StoreDelete(store_file, io_ok)
       IN  /\ store_file' = deleted.file
           /\ gaze_mapper' = IF deleted.raised THEN gaze_mapper ELSE None
           /\ ret' = IF deleted.raised THEN "False" ELSE "True"
    /\ last_op' = Op("delete_calibration", NoArg)
    /\ frame_result' = None
    /\ UNCHANGED <<calVars, calibration_input, call, smooth_calls, app, camera_open, gaze_config,
                   smoother, tracking_enabled, cursor_enabled, mouse_position,
                   last_cursor_pos, calibration_countdown_start, now,
                   visited, waited, odd_frames, worker>>

SetTrackingEnabled(name, value) ==
    /\ tracking_enabled' = value
    /\ ret' = IF name = "toggle_tracking"
              THEN (IF value THEN "True" ELSE "False") ELSE "None"
    /\ last_op' = Op(name, NoArg)
    /\ frame_result' = None
    /\ UNCHANGED <<calVars, calibration_input, call, smooth_calls, gaze_mapper, app, camera_open,
                   gaze_config, smoother, cursor_enabled, mouse_position,
                   last_cursor_pos, calibration_countdown_start, store_file,
                   now, visited, waited, odd_frames, worker>>

EnableTracking == SetTrackingEnabled("enable_tracking", TRUE)
DisableTracking == SetTrackingEnabled("disable_tracking", FALSE)
ToggleTracking == SetTrackingEnabled("toggle_tracking", ~tracking_enabled)

\* Whether the camera can be opened matters when it is closed, whether the
\* store can write when there is something to write or delete, and the rate
\* limit when a tracking frame moves the cursor.
CameraChoices == IF camera_open THEN {TRUE} ELSE BOOLEAN
DeleteChoices == IF store_file.kind = "absent" THEN {TRUE} ELSE BOOLEAN
SaveChoices(kind) ==
    IF kind = "gaze" /\ app.current_state = "CALIBRATING"
       /\ cal.state = "COLLECTING"
    THEN BOOLEAN ELSE {TRUE}
RateChoices(kind) ==
    IF kind = "gaze" /\ app.current_state = "TRACKING" THEN BOOLEAN ELSE {TRUE}

Next ==
    \/ Tick
    \/ \E camera_ok \in CameraChoices : StartTracking(camera_ok)
    \/ StopTracking
    \/ PauseTracking
    \/ ResumeTracking
    \/ \E camera_ok \in CameraChoices : StartCalibration(camera_ok)
    \/ \E kind \in FrameKinds, gaze \in FrameGazes :
           \E io_ok \in SaveChoices(kind), rate_ok \in RateChoices(kind) :
               ProcessFrame(kind, gaze, io_ok, rate_ok)
    \/ \E io_ok \in DeleteChoices : DeleteCalibration(io_ok)
    \/ EnableTracking
    \/ DisableTracking
    \/ ToggleTracking

Spec == Init /\ [][Next]_vars

(***************************************************************************)
(* SpecShutdown: the operations of Spec and shutdown(), which the window   *)
(* calls from closeEvent.  The Controller object outlives the call, so     *)
(* its operations stay callable afterwards.                                *)
(***************************************************************************)
\* shutdown: the camera is closed if open, cursor control is disabled and
\* the state machine is reset.
Shutdown ==
    /\ camera_open' = FALSE
    /\ cursor_enabled' = FALSE
    /\ app' = StateMachineReset(app)
    /\ ret' = "None"
    /\ last_op' = Op("shutdown", NoArg)
    /\ frame_result' = None
    /\ UNCHANGED <<calVars, calibration_input, call, smooth_calls, gaze_mapper,
                   gaze_config, smoother, tracking_enabled, mouse_position,
                   last_cursor_pos, calibration_countdown_start, store_file,
                   now, visited, waited, odd_frames, worker>>

NextShutdown ==
    \/ Next
    \/ Shutdown

SpecShutdown == Init /\ [][NextShutdown]_vars

(***************************************************************************)
(* SpecThreads: ProcessingWorker.run (src/gui/app_window.py) calls         *)
(* process_frame on the worker thread while the UI thread calls the        *)
(* operations of the Controller.  Nothing is locked, so an operation of    *)
(* the UI thread can run between any two steps of the worker.              *)
(***************************************************************************)
SensitivityChoices == {100}

UpdateSensitivity(sensitivity) ==
    /\ gaze_config' = [gaze_config EXCEPT !.sensitivity = sensitivity]
    /\ smoother' = SmootherUpdateConfig(smoother, gaze_config')
    /\ frame_result' = None
    /\ last_op' = Op("update_sensitivity", NoArg)
    /\ ret' = "None"
    /\ UNCHANGED <<calVars, calibration_input, call, smooth_calls, gaze_mapper, app, camera_open,
                   tracking_enabled, cursor_enabled, mouse_position,
                   last_cursor_pos, calibration_countdown_start, store_file,
                   now, visited, waited, odd_frames, worker>>

InitThreads ==
    /\ config \in [samples_per_point : {MinSamplesPerPoint},
                   countdown_seconds : {DefaultCountdownSeconds},
                   target_positions : {SubSeq(DefaultTargetPositions, 1, MinPoints)},
                   outlier_trim_percent : {DefaultTrimPercent}]
    /\ \E s \in ScreenSizes : screen_width = s[1] /\ screen_height = s[2]
    /\ cal = NewCalibrator
    /\ calibration_input = None
    /\ call = NoCall
    /\ smooth_calls = 0
    /\ gaze_mapper = None
    /\ InitController
    /\ store_file = FileWith(ToDict(StoredCalibration))
    /\ odd_frames = 0
    /\ last_op = Op("init", NoArg)
    /\ ret = "None"

\* run() reads the state and calls process_frame, which reads the state
\* into current_state, reads the frame, finds the face and estimates the
\* gaze.  A frame without a gaze returns at once.
WorkerBegin(kind, gaze) ==
    /\ worker.pc = "idle"
    /\ app.current_state \in {"TRACKING", "CALIBRATING"}
    /\ ~camera_open => kind = "no_frame"
    /\ kind # "gaze" => gaze = NominalGaze
    /\ gaze # NominalGaze => odd_frames < MaxOddFrames
    /\ odd_frames' = IF gaze # NominalGaze THEN odd_frames + 1 ELSE odd_frames
    /\ LET current_state == app.current_state
       IN  IF kind = "gaze"
           THEN /\ worker' = [pc |-> IF current_state = "CALIBRATING"
                                     THEN "calibration" ELSE "tracking",
                              current_state |-> current_state,
                              gaze |-> gaze, cal_state |-> "None"]
                /\ UNCHANGED <<frame_result, last_op, ret>>
           ELSE /\ frame_result' =
                       FrameProcessingResult(FALSE, kind = "no_gaze", None,
                           IF kind = "no_frame" THEN <<>>
                           ELSE FrozenCursor(current_state))
                /\ last_op' = Op("process_frame", gaze)
                /\ ret' = "result"
                /\ UNCHANGED worker
    /\ UNCHANGED <<calVars, calibration_input, call, smooth_calls, gaze_mapper, app, camera_open,
                   gaze_config, smoother, tracking_enabled, cursor_enabled,
                   mouse_position, last_cursor_pos,
                   calibration_countdown_start, store_file, now, visited,
                   waited>>

\* cal_state = self._calibrator.state
WorkerCalibrationRead ==
    /\ worker.pc = "calibration"
    /\ worker' = [worker EXCEPT !.pc = "calibration_step",
                                !.cal_state = cal.state]
    /\ UNCHANGED <<calVars, calibration_input, call, smooth_calls, gaze_mapper, app, camera_open,
                   gaze_config, smoother, tracking_enabled, cursor_enabled,
                   mouse_position, last_cursor_pos,
                   calibration_countdown_start, store_file, now, frame_result,
                   visited, waited, odd_frames, last_op, ret>>

\* The rest of _process_calibration_frame, and the return of process_frame.
\* An exception that escapes ends run().
WorkerCalibrationStep(io_ok) ==
    /\ worker.pc = "calibration_step"
    /\ LET r == ProcessCalibrationFrame(cal, worker.cal_state, worker.gaze,
                    calibration_countdown_start, now)
       IN  /\ CalibrationFrameEffects(r, worker.gaze, io_ok)
           /\ worker' = [IdleWorker EXCEPT !.pc = IF r.raised # "None"
                                                  THEN "stopped" ELSE "idle"]
    /\ last_op' = Op("process_frame", worker.gaze)
    /\ UNCHANGED <<config, screen_width, screen_height, calibration_input, call, smooth_calls,
                   gaze_config, tracking_enabled, cursor_enabled, odd_frames>>

\* The two tests at the head of _process_tracking_frame.
WorkerTrackingCheck ==
    /\ worker.pc = "tracking"
    /\ IF TrackingReturnsEarly(gaze_mapper, tracking_enabled)
       THEN /\ frame_result' =
                   FrameProcessingResult(TRUE, TRUE, worker.gaze,
                       TrackingEarlyResult(gaze_mapper, last_cursor_pos))
            /\ last_op' = Op("process_frame", worker.gaze)
            /\ ret' = "result"
            /\ worker' = IdleWorker
       ELSE /\ worker' = [worker EXCEPT !.pc = "tracking_map"]
            /\ UNCHANGED <<frame_result, last_op, ret>>
    /\ UNCHANGED <<calVars, calibration_input, call, smooth_calls, gaze_mapper, app, camera_open,
                   gaze_config, smoother, tracking_enabled, cursor_enabled,
                   mouse_position, last_cursor_pos,
                   calibration_countdown_start, store_file, now, visited,
                   waited, odd_frames>>

\* The rest of _process_tracking_frame, and the return of process_frame.
WorkerTrackingMap(rate_ok) ==
    /\ worker.pc = "tracking_map"
    /\ LET r == MapSmoothMove(gaze_mapper, smoother, gaze_config,
                    last_cursor_pos, mouse_position, cursor_enabled, rate_ok,
                    worker.gaze)
       IN  /\ TrackingFrameEffects(r, worker.gaze)
           /\ worker' = [IdleWorker EXCEPT !.pc = IF r.raised # "None"
                                                  THEN "stopped" ELSE "idle"]
    /\ last_op' = Op("process_frame", worker.gaze)
    /\ UNCHANGED <<config, screen_width, screen_height, calibration_input, call, smooth_calls,
                   gaze_config, tracking_enabled, cursor_enabled, odd_frames>>

\* The camera opens and the store writes: the failures of the environment
\* are explored under Spec.
NextThreads ==
    \/ Tick
    \/ StartTracking(TRUE)
    \/ StopTracking
    \/ PauseTracking
    \/ ResumeTracking
    \/ StartCalibration(TRUE)
    \/ DeleteCalibration(TRUE)
    \/ ToggleTracking
    \/ \E sensitivity \in SensitivityChoices : UpdateSensitivity(sensitivity)
    \/ \E kind \in FrameKinds, gaze \in FrameGazes : WorkerBegin(kind, gaze)
    \/ WorkerCalibrationRead
    \/ WorkerCalibrationStep(TRUE)
    \/ WorkerTrackingCheck
    \/ \E rate_ok \in BOOLEAN : WorkerTrackingMap(rate_ok)

SpecThreads == InitThreads /\ [][NextThreads]_vars

(***************************************************************************)
(* SpecMapper: a GazeMapper is constructed from a CalibrationData taken    *)
(* from a set that holds valid records and records that break each of the  *)
(* invariants.                                                             *)
(***************************************************************************)
PointChoices ==
    {[screen_x |-> Float(100, 1), screen_y |-> Float(50, 1),
      gaze_x |-> Float(0, 1), gaze_y |-> Float(0, 1), sample_count |-> 10],
     [screen_x |-> Float(30, 1), screen_y |-> Float(50, 1),
      gaze_x |-> Float(-80, 1), gaze_y |-> Float(0, 1), sample_count |-> 10],
     [screen_x |-> Float(170, 1), screen_y |-> Float(50, 1),
      gaze_x |-> Float(80, 1), gaze_y |-> Float(10, 8), sample_count |-> 12],
     \* the same gaze_x as the first point, another screen_x
     [screen_x |-> Float(120, 1), screen_y |-> Float(85, 1),
      gaze_x |-> Float(0, 1), gaze_y |-> Float(80, 1), sample_count |-> 10],
     \* right of the last pixel column, at the smallest gaze_x
     [screen_x |-> Float(250, 1), screen_y |-> Float(15, 1),
      gaze_x |-> Float(-160, 1), gaze_y |-> Float(-80, 1), sample_count |-> 10],
     [screen_x |-> Float(-1, 1), screen_y |-> Float(50, 1),
      gaze_x |-> Float(0, 1), gaze_y |-> Float(0, 1), sample_count |-> 10],
     [screen_x |-> NaN, screen_y |-> Float(50, 1),
      gaze_x |-> Float(0, 1), gaze_y |-> Float(0, 1), sample_count |-> 10],
     [screen_x |-> Float(100, 1), screen_y |-> Float(50, 1),
      gaze_x |-> Float(500, 1), gaze_y |-> Float(0, 1), sample_count |-> 10],
     [screen_x |-> Float(100, 1), screen_y |-> Float(50, 1),
      gaze_x |-> Float(0, 1), gaze_y |-> NaN, sample_count |-> 10],
     [screen_x |-> Float(100, 1), screen_y |-> Float(50, 1),
      gaze_x |-> Float(0, 1), gaze_y |-> Float(0, 1), sample_count |-> 0]}

SeqsOfLength(S, n) == [1..n -> S]

CalibrationChoices ==
    [version : {"1.0", ""},
     timestamp : {"2025-06-01T12:00:00", "yesterday"},
     screen_width : {200, 0},
     screen_height : {100},
     points : UNION {SeqsOfLength(PointChoices, n) : n \in 0..MinPoints}]

InitMapper ==
    /\ config \in [samples_per_point : {MinSamplesPerPoint},
                   countdown_seconds : {DefaultCountdownSeconds},
                   target_positions : {DefaultTargetPositions},
                   outlier_trim_percent : {DefaultTrimPercent}]
    /\ \E s \in ScreenSizes : screen_width = s[1] /\ screen_height = s[2]
    /\ cal = NewCalibrator
    /\ calibration_input \in CalibrationChoices
    /\ call = NoCall
    /\ smooth_calls = 0
    /\ gaze_mapper = None
    /\ InitController
    /\ store_file = NoFile
    /\ odd_frames = 0
    /\ last_op = Op("init", NoArg)
    /\ ret = "None"

ConstructMapper ==
    /\ last_op.op = "init"
    /\ LET r == GazeMapperInit(calibration_input)
       IN  /\ gaze_mapper' = r.mapper
           /\ ret' = r.error
    /\ last_op' = Op("GazeMapper", NoArg)
    /\ UNCHANGED <<calVars, calibration_input, call, smooth_calls, odd_frames, ctlVars>>

\* The gaze vectors a mapper is asked about: inside the calibrated range,
\* on its ends and far outside it.
QueryGazes ==
    [x : {-500, -160, -80, -40, 0, 40, 80, 500},
     y : {-500, -80, -40, 0, 40, 80, 500}]

\* mapper.map_gaze_to_screen(gaze) on the mapper constructed.
MapGaze(gaze) ==
    /\ gaze_mapper # None
    /\ call' = Call("map_gaze_to_screen", <<gaze>>,
                     MapGazeToScreen(gaze_mapper, gaze))
    /\ last_op' = Op("map_gaze_to_screen", gaze)
    /\ ret' = "tuple"
    /\ UNCHANGED <<calVars, calibration_input, smooth_calls, gaze_mapper, odd_frames,
                   ctlVars>>

NextMapper ==
    \/ ConstructMapper
    \/ \E gaze \in QueryGazes : MapGaze(gaze)

SpecMapper == InitMapper /\ [][NextMapper]_vars

\* The invariants of CalibrationPoint and CalibrationData.
C10_PointInvariant(p) ==
    /\ p.screen_x.kind = "float" /\ p.screen_x.num >= 0
    /\ p.screen_y.kind = "float" /\ p.screen_y.num >= 0
    /\ p.gaze_x.kind = "float" /\ p.gaze_y.kind = "float"
    /\ -GazeLimit * p.gaze_x.den <= p.gaze_x.num
    /\ p.gaze_x.num <= GazeLimit * p.gaze_x.den
    /\ -GazeLimit * p.gaze_y.den <= p.gaze_y.num
    /\ p.gaze_y.num <= GazeLimit * p.gaze_y.den
    /\ p.sample_count > 0

C10_DataInvariant(d) ==
    /\ d.screen_width > 0 /\ d.screen_height > 0
    /\ Len(d.points) >= 3
    /\ \A i \in 1..Len(d.points) : C10_PointInvariant(d.points[i])
    /\ d.timestamp \in IsoTimestamps

\* C10: constructing a GazeMapper from a CalibrationData that violates an
\* invariant signals a validation error and yields no mapper; construction
\* succeeds, on that very record, for every CalibrationData that passes
\* validate().
C10_MapperNeedsValidData ==
    last_op.op = "GazeMapper" =>
        /\ ~C10_DataInvariant(calibration_input) =>
              ret # "ok" /\ gaze_mapper = None
        /\ Validate(calibration_input) = "ok" =>
              /\ ret = "ok"
              /\ gaze_mapper # None
              /\ gaze_mapper.calibration = calibration_input

\* A mapper has been refused for a record whose only fault is one point
\* with a gaze value outside [-2, 2].
C10_Witness ==
    /\ last_op.op = "GazeMapper"
    /\ ret = "Invalid calibration point"
    /\ gaze_mapper = None
    /\ Len(calibration_input.points) = 3
    /\ \E i \in 1..3 : calibration_input.points[i].gaze_x = Float(500, 1)

(***************************************************************************)
(* SpecCal: a Calibrator used directly.  start() and add_sample() are      *)
(* called in any state; set_state() is called the way the driving loop     *)
(* calls it: COUNTDOWN right after start(), COLLECTING out of COUNTDOWN.    *)
(***************************************************************************)
InitCal ==
    /\ config \in [samples_per_point : {SmallQuota, MinSamplesPerPoint},
                   countdown_seconds : {DefaultCountdownSeconds},
                   target_positions : TargetPositionChoices,
                   outlier_trim_percent : TrimChoices]
    /\ \E s \in ScreenSizes : screen_width = s[1] /\ screen_height = s[2]
    /\ cal = NewCalibrator
    /\ calibration_input = None
    /\ call = NoCall
    /\ smooth_calls = 0
    /\ gaze_mapper = None
    /\ InitController
    /\ store_file = NoFile
    /\ odd_frames = 0
    /\ last_op = Op("init", NoArg)
    /\ ret = "None"

ApiStart ==
    /\ cal' = CalStart(cal)
    /\ last_op' = Op("start", NoArg)
    /\ ret' = "None"
    /\ UNCHANGED <<config, screen_width, screen_height, odd_frames,
                   calibration_input, call, smooth_calls, gaze_mapper, ctlVars>>

ApiSetState(state) ==
    /\ \/ state = "COUNTDOWN" /\ last_op.op = "start"
       \/ state = "COLLECTING" /\ cal.state = "COUNTDOWN"
    /\ cal' = CalSetState(cal, state)
    /\ last_op' = Op("set_state", NoArg)
    /\ ret' = "None"
    /\ UNCHANGED <<config, screen_width, screen_height, odd_frames,
                   calibration_input, call, smooth_calls, gaze_mapper, ctlVars>>

ApiAddSample(gaze) ==
    /\ gaze # NominalGaze => odd_frames < MaxOddFrames
    /\ odd_frames' = IF gaze # NominalGaze THEN odd_frames + 1 ELSE odd_frames
    /\ LET r == CalAddSample(cal, gaze)
       IN  /\ cal' = r.cal
           /\ ret' = r.ret
    /\ last_op' = Op("add_sample", gaze)
    /\ UNCHANGED <<config, screen_width, screen_height, calibration_input, call, smooth_calls,
                   gaze_mapper, ctlVars>>

NextCal ==
    \/ ApiStart
    \/ \E state \in {"COUNTDOWN", "COLLECTING"} : ApiSetState(state)
    \/ \E gaze \in {NominalGaze} \cup OddGazes : ApiAddSample(gaze)

SpecCal == InitCal /\ [][NextCal]_vars

(***************************************************************************)
(* Properties of the Calibrator (checked under SpecCal).                   *)
(***************************************************************************)
AllBuffersEmpty(c) == \A i \in 1..Len(c.targets) : c.targets[i].samples = <<>>

C2_QuotaTransition ==
    [][(last_op'.op = "add_sample" /\ cal.state = "COLLECTING") =>
        LET i == cal.current_target_index
            n == Len(cal.targets)
            size == Len(cal.targets[i + 1].samples) + 1
        IN  /\ size <= config.samples_per_point
            /\ size < config.samples_per_point =>
                  /\ cal'.state = "COLLECTING"
                  /\ cal'.current_target_index = i
            /\ (size = config.samples_per_point /\ i < n - 1) =>
                  /\ cal'.state = "COUNTDOWN"
                  /\ cal'.current_target_index = i + 1
            /\ (size = config.samples_per_point /\ i = n - 1) =>
                  /\ cal'.current_target_index = n
                  /\ \/ cal'.state = "COMPLETED" /\ cal'.calibration_data # None
                     \/ cal'.state = "IDLE" /\ cal'.calibration_data = None]_vars

\* The tenth sample of target 0 has just moved the calibrator to the
\* countdown of target 1.
C2_Witness ==
    /\ last_op.op = "add_sample"
    /\ ret = "True"
    /\ cal.state = "COUNTDOWN"
    /\ cal.current_target_index = 1
    /\ config.samples_per_point = MinSamplesPerPoint
    /\ Len(cal.targets[1].samples) = MinSamplesPerPoint

\* What validate() asks of the data finalization assembles from the targets.
C3_AssembledDataValid(c) ==
    /\ screen_width > 0 /\ screen_height > 0
    /\ Len(c.targets) >= MinPoints
    /\ \A i \in 1..Len(c.targets) :
          LET t == c.targets[i]
              xs == [k \in 1..Len(t.samples) |-> t.samples[k].x]
              ys == [k \in 1..Len(t.samples) |-> t.samples[k].y]
          IN  /\ t.screen_x >= 0 /\ t.screen_y >= 0
              /\ InGazeRange(TrimMean(xs, config.outlier_trim_percent))
              /\ InGazeRange(TrimMean(ys, config.outlier_trim_percent))

\* C3: finalization ends either in IDLE with no calibration_data, exactly
\* when some target has insufficient data or the assembled data fails
\* validation, or in COMPLETED with a CalibrationData that passes validate(),
\* carries the calibrator's screen size and has one point per target, in
\* target order, with the target's position and sample count.
C3_FinalizeOutcomes ==
    [][(/\ last_op'.op = "add_sample"
        /\ cal.state = "COLLECTING"
        /\ cal'.current_target_index = Len(cal.targets)) =>
        LET n == Len(cal'.targets)
            d == cal'.calibration_data
            insufficient ==
                \E i \in 1..n : Len(cal'.targets[i].samples) < MinSamples
            fails == insufficient \/ ~C3_AssembledDataValid(cal')
        IN  IF fails
            THEN cal'.state = "IDLE" /\ d = None
            ELSE /\ cal'.state = "COMPLETED"
                 /\ d # None
                 /\ Validate(d) = "ok"
                 /\ d.screen_width = screen_width
                 /\ d.screen_height = screen_height
                 /\ Len(d.points) = n
                 /\ \A i \in 1..n :
                       /\ d.points[i].screen_x = Float(cal'.targets[i].screen_x, 1)
                       /\ d.points[i].screen_y = Float(cal'.targets[i].screen_y, 1)
                       /\ d.points[i].sample_count = Len(cal'.targets[i].samples)]_vars

\* Finalization has succeeded on three targets, one sample an outlier.
C3_Witness ==
    /\ last_op.op = "add_sample"
    /\ cal.state = "COMPLETED"
    /\ cal.calibration_data # None
    /\ odd_frames > 0

C7_StartResets ==
    [][last_op'.op = "start" =>
        /\ cal'.state = "IDLE"
        /\ cal'.current_target_index = 0
        /\ Len(cal'.targets) = Len(config.target_positions)
        /\ \A i \in 1..Len(config.target_positions) :
              /\ cal'.targets[i].index = i - 1
              /\ cal'.targets[i].screen_x * 100 = config.target_positions[i][1] * screen_width
              /\ cal'.targets[i].screen_y * 100 = config.target_positions[i][2] * screen_height
              /\ cal'.targets[i].samples = <<>>]_vars

\* start() has been called on a calibrator that had completed a run: the
\* result of that run is still there, its samples are not.
C7_Witness ==
    /\ last_op.op = "start"
    /\ cal.calibration_data # None
    /\ cal.targets # <<>>
    /\ AllBuffersEmpty(cal)

(***************************************************************************)
(* Claims about a calibration driven by the Controller (Spec).             *)
(***************************************************************************)
InProgress == cal.state \in {"COUNTDOWN", "COLLECTING"}

\* C4: from every in-progress calibration state (COUNTDOWN or COLLECTING, on
\* any target, with any number of samples) one step of an operation returns
\* the calibrator to IDLE with every sample buffer discarded.
C4_CancelAvailable ==
    (app.current_state = "CALIBRATING" /\ InProgress) =>
        ENABLED (Next /\ cal'.state = "IDLE" /\ AllBuffersEmpty(cal'))

\* C5: a calibration driven by the Controller moves the calibrator only along
\* IDLE->COUNTDOWN (start_calibration, through start()), COUNTDOWN->COLLECTING
\* on the same target and only after countdown_seconds have passed since the
\* countdown began, COLLECTING->COUNTDOWN on the next target when the quota
\* is reached and targets remain, COLLECTING->COMPLETED after the last target
\* with valid data, COLLECTING->IDLE after the last target with no data; no
\* other operation touches the calibrator, and COMPLETED is reached only when
\* every target has been in COLLECTING.
C5_CalibrationEdges ==
    [][LET i == cal.current_target_index
           j == cal'.current_target_index
           n == Len(cal'.targets)
       IN  /\ (last_op'.op = "start_calibration" /\ ret' = "True") =>
                  /\ CalStart(cal).state = "IDLE"
                  /\ cal'.state = "COUNTDOWN" /\ j = 0 /\ AllBuffersEmpty(cal')
           /\ (last_op'.op = "process_frame" /\ cal'.state # cal.state) =>
                  \/ /\ cal.state = "COUNTDOWN" /\ cal'.state = "COLLECTING"
                     /\ j = i
                     /\ waited >= config.countdown_seconds
                  \/ /\ cal.state = "COLLECTING" /\ cal'.state = "COUNTDOWN"
                     /\ j = i + 1 /\ j < n
                     /\ Len(cal'.targets[j].samples) >= config.samples_per_point
                  \/ /\ cal.state = "COLLECTING" /\ cal'.state = "COMPLETED"
                     /\ j = i + 1 /\ j = n
                     /\ cal'.calibration_data # None
                  \/ /\ cal.state = "COLLECTING" /\ cal'.state = "IDLE"
                     /\ j = i + 1 /\ j = n
                     /\ cal'.calibration_data = None
           /\ (last_op'.op = "process_frame" /\ cal'.state = cal.state) => j = i
           /\ last_op'.op \notin {"start_calibration", "process_frame"} =>
                  cal' = cal
           /\ cal'.state = "COMPLETED" => visited' = 0..(n - 1)
      ]_vars

C5_Witness ==
    /\ last_op.op = "process_frame"
    /\ cal.state = "COMPLETED"
    /\ app.current_state = "IDLE"
    /\ visited = 0..(Len(cal.targets) - 1)
    /\ Len(cal.targets) >= MinPoints

\* C8: when the calibrator's finalization fails on a frame of a
\* Controller-driven calibration, that frame leaves the application in IDLE,
\* or in ERROR with the recoverable "Calibration failed to finalize" error,
\* and no data, mapper or file comes from the failed run.
C8_FailedFinalizeLeavesCalibrating ==
    [][(last_op'.op = "process_frame" /\ cal.state = "COLLECTING"
           /\ cal'.state = "IDLE") =>
           /\ \/ app'.current_state = "IDLE"
              \/ /\ app'.current_state = "ERROR"
                 /\ app'.error = ErrorInfo("CalibrationError",
                                     "Calibration failed to finalize", TRUE)
           /\ cal'.calibration_data = None
           /\ gaze_mapper' = gaze_mapper
           /\ store_file' = store_file
      ]_vars

(***************************************************************************)
(* Claims about the worker thread and the UI thread (SpecThreads).         *)
(***************************************************************************)
\* C9: while the worker is inside a process_frame call, a step that is not
\* the worker's leaves alone what the call uses: the calibrator during a
\* calibration frame, the smoother and the mapper reference during a
\* tracking frame.
C9_NoUiMutationDuringFrame ==
    [][worker' = worker =>
           /\ worker.pc \in {"calibration", "calibration_step"} => cal' = cal
           /\ worker.pc \in {"tracking", "tracking_map"} =>
                  smoother' = smoother /\ gaze_mapper' = gaze_mapper
      ]_vars

(***************************************************************************)
(* Claims on GazeMapper.map_gaze_to_screen (SpecMapper)                    *)
(***************************************************************************)
\* The first point of pts whose gaze on gaze_axis is the smallest / largest.
FirstMinPoint(pts, gaze_axis) ==
    pts[CHOOSE i \in 1..Len(pts) :
            /\ \A j \in 1..Len(pts) :
                  pts[i][gaze_axis].num * pts[j][gaze_axis].den
                      <= pts[j][gaze_axis].num * pts[i][gaze_axis].den
            /\ \A j \in 1..(i - 1) : pts[j][gaze_axis] # pts[i][gaze_axis]]

FirstMaxPoint(pts, gaze_axis) ==
    pts[CHOOSE i \in 1..Len(pts) :
            /\ \A j \in 1..Len(pts) :
                  pts[i][gaze_axis].num * pts[j][gaze_axis].den
                      >= pts[j][gaze_axis].num * pts[i][gaze_axis].den
            /\ \A j \in 1..(i - 1) : pts[j][gaze_axis] # pts[i][gaze_axis]]

\* The float r is the fraction n / d (d > 0) clamped to lo..hi.
IsClamped(r, n, d, lo, hi) ==
    /\ r.kind = "float"
    /\ IF n < lo * d THEN r.num = lo * r.den
       ELSE IF n > hi * d THEN r.num = hi * r.den
       ELSE r.num * d = n * r.den

\* The result r for gaze g on one axis is the clamped linear interpolation
\* between the first minimum-gaze and the first maximum-gaze point.
IsInterpolation(r, g, pts, gaze_axis, screen_axis, dimension) ==
    LET lo == FirstMinPoint(pts, gaze_axis)
        hi == FirstMaxPoint(pts, gaze_axis)
        a == lo[gaze_axis].num
        b == lo[gaze_axis].den
        c == hi[gaze_axis].num
        d == hi[gaze_axis].den
        p == lo[screen_axis].num
        q == lo[screen_axis].den
        u == hi[screen_axis].num
        v == hi[screen_axis].den
        \* t = t_num / t_den
        t_num == (g * b - a) * d
        t_den == c * b - a * d
    IN  t_den # 0 =>
            IsClamped(r, p * v * t_den + t_num * (u * q - p * v),
                      q * v * t_den, 0, dimension - 1)

\* C11: for a valid calibration, each axis of map_gaze_to_screen is
\* clamp(screen_at_gaze_min + t * (screen_at_gaze_max - screen_at_gaze_min),
\* 0, dimension - 1) with t = (gaze - gaze_min) / (gaze_max - gaze_min), t not
\* restricted to [0, 1], where the two screen values are those of the first
\* point attaining the minimum and of the first point attaining the maximum
\* gaze on that axis; no other point influences the result.
C11_LinearInterpolation ==
    (call.fn = "map_gaze_to_screen" /\ C10_DataInvariant(calibration_input)) =>
        LET d == calibration_input
            gaze == call.args[1]
        IN  /\ IsInterpolation(call.result.x, gaze.x, d.points,
                               "gaze_x", "screen_x", d.screen_width)
            /\ IsInterpolation(call.result.y, gaze.y, d.points,
                               "gaze_y", "screen_y", d.screen_height)

\* The query gaze g on one axis is that of a point attaining the minimum or
\* the maximum gaze there, and the result r is not that point's screen value.
ExtremePointMissed(r, g, pts, gaze_axis, screen_axis) ==
    \E i \in 1..Len(pts) :
        /\ pts[i][gaze_axis] \in {FirstMinPoint(pts, gaze_axis)[gaze_axis],
                                  FirstMaxPoint(pts, gaze_axis)[gaze_axis]}
        /\ pts[i][gaze_axis].num = g * pts[i][gaze_axis].den
        /\ r.num * pts[i][screen_axis].den # pts[i][screen_axis].num * r.den

\* C11 as stated: the interpolation formula and, as its consequence, the
\* gaze of an extreme point maps to that point's screen coordinate.
C11_ExtremeMapsToItsScreen ==
    (call.fn = "map_gaze_to_screen" /\ C10_DataInvariant(calibration_input)) =>
        LET d == calibration_input
            gaze == call.args[1]
        IN  /\ C11_LinearInterpolation
            /\ FirstMinPoint(d.points, "gaze_x").gaze_x
                  # FirstMaxPoint(d.points, "gaze_x").gaze_x =>
                  ~ExtremePointMissed(call.result.x, gaze.x, d.points,
                                      "gaze_x", "screen_x")
            /\ FirstMinPoint(d.points, "gaze_y").gaze_y
                  # FirstMaxPoint(d.points, "gaze_y").gaze_y =>
                  ~ExtremePointMissed(call.result.y, gaze.y, d.points,
                                      "gaze_y", "screen_y")

\* A gaze left of the calibrated range 0 .. 0.8, whose ends are at the
\* pixels 100 and 170, has been extrapolated with t = -1/2 to pixel 65.
C11_Witness ==
    /\ call.fn = "map_gaze_to_screen"
    /\ C10_DataInvariant(calibration_input)
    /\ gaze_mapper.gaze_min_x = Float(0, 1)
    /\ gaze_mapper.gaze_max_x = Float(80, 1)
    /\ call.args[1].x = -40
    /\ FloatEq(call.result.x, Float(65, 1))

\* The float r lies in lo..hi.
InRange(r, lo, hi) ==
    r.kind = "float" /\ lo * r.den <= r.num /\ r.num <= hi * r.den

\* C12: for every valid calibration and every query gaze, however far
\* outside the calibrated range, map_gaze_to_screen returns x in
\* [0, screen_width - 1] and y in [0, screen_height - 1].
C12_OutputOnScreen ==
    (call.fn = "map_gaze_to_screen" /\ C10_DataInvariant(calibration_input)) =>
        /\ InRange(call.result.x, 0, calibration_input.screen_width - 1)
        /\ InRange(call.result.y, 0, calibration_input.screen_height - 1)

\* A gaze of (5.0, -5.0) on a calibration whose horizontal range is
\* -0.8 .. 0.8, between the pixels 30 and 170, has been sent to the last
\* pixel column.
C12_Witness ==
    /\ call.fn = "map_gaze_to_screen"
    /\ C10_DataInvariant(calibration_input)
    /\ gaze_mapper.gaze_min_x = Float(-80, 1)
    /\ gaze_mapper.gaze_max_x = Float(80, 1)
    /\ call.args[1] = [x |-> 500, y |-> -500]
    /\ call.result.x = Float(calibration_input.screen_width - 1, 1)

\* On the axis, the screen value of the maximum-gaze point is not less than
\* that of the minimum-gaze point.
ScreenGrowsWithGaze(pts, gaze_axis, screen_axis) ==
    ~FloatLess(FirstMaxPoint(pts, gaze_axis)[screen_axis],
               FirstMinPoint(pts, gaze_axis)[screen_axis])

\* C13: on a valid calibration whose screen coordinate at the maximum-gaze
\* point is not less than the one at the minimum-gaze point on an axis, two
\* queries g1 <= g2 on that axis, equal on the other axis, give outputs
\* s1 <= s2 on that axis; separately for the horizontal and the vertical
\* axis.  The two queries are two consecutive calls on the same mapper.
C13_Monotone ==
    [][(/\ call.fn = "map_gaze_to_screen"
        /\ call'.fn = "map_gaze_to_screen"
        /\ gaze_mapper' = gaze_mapper
        /\ C10_DataInvariant(calibration_input)) =>
        LET pts == calibration_input.points
            g1 == call.args[1]
            g2 == call'.args[1]
            s1 == call.result
            s2 == call'.result
        IN  /\ (/\ ScreenGrowsWithGaze(pts, "gaze_x", "screen_x")
                /\ g1.x <= g2.x /\ g1.y = g2.y) =>
                   s1.x.kind = "float" /\ s2.x.kind = "float"
                   /\ s1.x.num * s2.x.den <= s2.x.num * s1.x.den
            /\ (/\ ScreenGrowsWithGaze(pts, "gaze_y", "screen_y")
                /\ g1.y <= g2.y /\ g1.x = g2.x) =>
                   s1.y.kind = "float" /\ s2.y.kind = "float"
                   /\ s1.y.num * s2.y.den <= s2.y.num * s1.y.den]_vars

\* On a calibration whose horizontal range -0.8 .. 0.8 lies between the
\* pixels 30 and 170, the gaze 0.4 has been sent to pixel 135, right of the
\* pixel 100 of the gaze 0 and left of the pixel 170 of the gaze 0.8.
C13_Witness ==
    /\ call.fn = "map_gaze_to_screen"
    /\ C10_DataInvariant(calibration_input)
    /\ ScreenGrowsWithGaze(calibration_input.points, "gaze_x", "screen_x")
    /\ gaze_mapper.gaze_min_x = Float(-80, 1)
    /\ gaze_mapper.gaze_max_x = Float(80, 1)
    /\ call.args[1].x = 40
    /\ FloatEq(call.result.x, Float(135, 1))
    /\ FloatEq(MapGazeToScreen(gaze_mapper, [x |-> 0, y |-> 0]).x, Float(100, 1))

\* All points of pts have the same gaze on the axis.
DegenerateAxis(pts, gaze_axis) ==
    \A i, j \in 1..Len(pts) :
        pts[i][gaze_axis].num * pts[j][gaze_axis].den
            = pts[j][gaze_axis].num * pts[i][gaze_axis].den

\* The float r is the middle dimension / 2 of the axis.
IsMidpoint(r, dimension) ==
    r.kind = "float" /\ 2 * r.num = dimension * r.den

\* C14: when all calibration points share one gaze value on an axis, the
\* mapper divides nothing by zero and returns the screen midpoint of that
\* axis for every query gaze, and the other axis is still interpolated.
C14_DegenerateAxisMidpoint ==
    (call.fn = "map_gaze_to_screen" /\ C10_DataInvariant(calibration_input)) =>
        LET d == calibration_input
            gaze == call.args[1]
        IN  /\ DegenerateAxis(d.points, "gaze_x") =>
                  /\ IsMidpoint(call.result.x, d.screen_width)
                  /\ IsInterpolation(call.result.y, gaze.y, d.points,
                                     "gaze_y", "screen_y", d.screen_height)
            /\ DegenerateAxis(d.points, "gaze_y") =>
                  /\ IsMidpoint(call.result.y, d.screen_height)
                  /\ IsInterpolation(call.result.x, gaze.x, d.points,
                                     "gaze_x", "screen_x", d.screen_width)

\* Three points with the gaze_x 0 and the gaze_y 0, 0.8, 0.8: the query
\* (5.0, 0.4) has been sent to the middle column 100 and, half way between
\* the rows 50 and 85, to 67.5.
C14_Witness ==
    /\ call.fn = "map_gaze_to_screen"
    /\ C10_DataInvariant(calibration_input)
    /\ DegenerateAxis(calibration_input.points, "gaze_x")
    /\ ~DegenerateAxis(calibration_input.points, "gaze_y")
    /\ call.args[1] = [x |-> 500, y |-> 40]
    /\ FloatEq(call.result.x, Float(100, 1))
    /\ FloatEq(call.result.y, Float(135, 2))

(***************************************************************************)
(* Claims on the Controller's mapper and stored calibration (Spec)         *)
(***************************************************************************)
\* C15: in every state reached through Controller operations, a gaze
\* mapper held by the controller was made from a calibration whose screen
\* size is the controller's (screen_width, screen_height); a stored
\* calibration of any other size is never made the active mapper.
C15_MapperMatchesScreen ==
    gaze_mapper # None =>
        /\ gaze_mapper.calibration.screen_width = screen_width
        /\ gaze_mapper.calibration.screen_height = screen_height
        /\ gaze_mapper.screen_width = screen_width
        /\ gaze_mapper.screen_height = screen_height

\* start_tracking has loaded the stored calibration of the controller's
\* screen size and made it the mapper.
C15_Witness ==
    /\ last_op.op = "start_tracking"
    /\ ret = "True"
    /\ gaze_mapper # None
    /\ gaze_mapper.calibration = StoredCalibration
    /\ store_file = FileWith(ToDict(StoredCalibration))
    /\ cal.calibration_data = None

(***************************************************************************)
(* SpecSchema: the methods of one CalibrationData record, taken from the   *)
(* set of valid and invalid records, are called in any order.              *)
(***************************************************************************)
\* The screen sizes a record is compared with.
ScreenQueries == {<<200, 100>>, <<100, 200>>, <<200, 200>>, <<100, 100>>}

\* calibration.validate(): "ok" when it returns True, else the message of
\* the ValueError.
ValidateRecord ==
    /\ call' = Call("validate", <<>>, Validate(calibration_input))
    /\ last_op' = Op("validate", NoArg)
    /\ ret' = IF Validate(calibration_input) = "ok" THEN "True" ELSE "ValueError"
    /\ UNCHANGED <<calVars, calibration_input, smooth_calls, gaze_mapper, odd_frames,
                   ctlVars>>

\* calibration.is_compatible_with_screen(width, height)
CheckCompatible(width, height) ==
    /\ call' = Call("is_compatible_with_screen", <<width, height>>,
                     IsCompatibleWithScreen(calibration_input, width, height))
    /\ last_op' = Op("is_compatible_with_screen", NoArg)
    /\ ret' = IF IsCompatibleWithScreen(calibration_input, width, height)
              THEN "True" ELSE "False"
    /\ UNCHANGED <<calVars, calibration_input, smooth_calls, gaze_mapper, odd_frames,
                   ctlVars>>

\* CalibrationData.from_dict(calibration.to_dict())
RoundTrip ==
    /\ call' = Call("from_dict", <<ToDict(calibration_input)>>,
                     FromDict(ToDict(calibration_input)))
    /\ last_op' = Op("from_dict", NoArg)
    /\ ret' = "CalibrationData"
    /\ UNCHANGED <<calVars, calibration_input, smooth_calls, gaze_mapper, odd_frames,
                   ctlVars>>

\* CalibrationPoint.from_dict(point.to_dict()) on the i-th point
PointRoundTrip(i) ==
    /\ i \in 1..Len(calibration_input.points)
    /\ call' = Call("point_from_dict", <<i, PointToDict(calibration_input.points[i])>>,
                     PointFromDict(PointToDict(calibration_input.points[i])))
    /\ last_op' = Op("point_from_dict", NoArg)
    /\ ret' = "CalibrationPoint"
    /\ UNCHANGED <<calVars, calibration_input, smooth_calls, gaze_mapper, odd_frames,
                   ctlVars>>

NextSchema ==
    \/ ValidateRecord
    \/ \E q \in ScreenQueries : CheckCompatible(q[1], q[2])
    \/ RoundTrip
    \/ \E i \in 1..MinPoints : PointRoundTrip(i)

SpecSchema == InitMapper /\ [][NextSchema]_vars

\* C16: is_compatible_with_screen(w, h) is true if and only if w is the
\* record's screen_width and h is its screen_height; any difference, the
\* two exchanged included, gives false.
C16_CompatibleIffSameSize ==
    call.fn = "is_compatible_with_screen" =>
        /\ call.result \in BOOLEAN
        /\ call.result <=>
              (/\ call.args[1] = calibration_input.screen_width
               /\ call.args[2] = calibration_input.screen_height)

\* A record for a 200 x 100 screen has been compared with 100 x 200 and
\* found incompatible.
C16_Witness ==
    /\ call.fn = "is_compatible_with_screen"
    /\ calibration_input.screen_width = 200
    /\ calibration_input.screen_height = 100
    /\ call.args = <<100, 200>>
    /\ call.result = FALSE

\* The records C17 says validate() accepts: a non-empty version and the
\* invariants of the data model.
AcceptableRecord(d) == d.version # "" /\ C10_DataInvariant(d)

\* C17: validate() accepts exactly the records with a non-empty version,
\* screen_width > 0 and screen_height > 0, at least 3 points, every point
\* with screen_x >= 0, screen_y >= 0, gaze_x and gaze_y in [-2, 2] and
\* sample_count > 0, and an ISO-8601 timestamp; every other record is
\* rejected with a validation error; the record is never modified.
C17_ValidateAcceptsExactly ==
    [][last_op'.op = "validate" =>
          /\ (call'.result = "ok") <=> AcceptableRecord(calibration_input)
          /\ (call'.result # "ok") <=> (ret' = "ValueError")
          /\ calibration_input' = calibration_input]_vars

\* Two CalibrationPoint objects agree on every field.
SamePoint(p, q) ==
    /\ p.screen_x = q.screen_x /\ p.screen_y = q.screen_y
    /\ p.gaze_x = q.gaze_x /\ p.gaze_y = q.gaze_y
    /\ p.sample_count = q.sample_count

\* C18: for every valid CalibrationData d, from_dict(d.to_dict()) has the
\* version, timestamp, screen_width and screen_height of d and the same
\* points in the same order; and for every valid CalibrationPoint p,
\* CalibrationPoint.from_dict(p.to_dict()) equals p.
C18_RoundTrip ==
    /\ (call.fn = "from_dict" /\ AcceptableRecord(calibration_input)) =>
          LET d == calibration_input
              r == call.result
          IN  /\ r.version = d.version
              /\ r.timestamp = d.timestamp
              /\ r.screen_width = d.screen_width
              /\ r.screen_height = d.screen_height
              /\ Len(r.points) = Len(d.points)
              /\ \A i \in 1..Len(d.points) : SamePoint(r.points[i], d.points[i])
    /\ (/\ call.fn = "point_from_dict"
        /\ C10_PointInvariant(calibration_input.points[call.args[1]])) =>
          SamePoint(call.result, calibration_input.points[call.args[1]])

\* A valid record of three different points, stamped earlier than now, one
\* gaze value not a whole number of hundredths, has gone through to_dict
\* and from_dict.
C18_Witness ==
    /\ call.fn = "from_dict"
    /\ AcceptableRecord(calibration_input)
    /\ call.result = calibration_input
    /\ calibration_input.timestamp # NowIsoformat
    /\ calibration_input.points[1] # calibration_input.points[2]
    /\ calibration_input.points[2] # calibration_input.points[3]
    /\ calibration_input.points[1] # calibration_input.points[3]
    /\ \E i \in 1..3 : calibration_input.points[i].gaze_y = Float(10, 8)

\* The stored calibration cannot be loaded: the file is absent, is not
\* JSON, holds a record that validate() refuses, or holds a record for
\* another screen size.
LoadFails ==
    store_file \in {NoFile, CorruptFile, FileWith(ToDict(TwoPointCalibration)),
                    FileWith(ToDict(OtherScreenCalibration))}

\* C19: when loading the stored calibration fails, start_tracking on a
\* controller without a mapper returns False, installs no mapper, does not
\* enter TRACKING, and lets no exception out.
C19_FailedLoadNoTracking ==
    [][(last_op'.op = "start_tracking" /\ gaze_mapper = None /\ LoadFails) =>
          /\ ret' = "False"
          /\ gaze_mapper' = None
          /\ app'.current_state # "TRACKING"
          /\ tracking_enabled' = tracking_enabled
          /\ store_file' = store_file]_vars

\* start_tracking has been refused on an idle controller whose stored
\* record has two points only: no mapper, and the error of a missing
\* calibration.
C19_Witness ==
    /\ last_op.op = "start_tracking"
    /\ ret = "False"
    /\ store_file = FileWith(ToDict(TwoPointCalibration))
    /\ gaze_mapper = None
    /\ app.previous_state = "IDLE"
    /\ app.current_state = "ERROR"
    /\ app.error.error_type = "CalibrationError"

(***************************************************************************)
(* SpecSmoother: a GazeSmoother used directly.  smooth(), reset() and      *)
(* update_config() are called in any order.                                *)
(***************************************************************************)
\* Raw screen positions, in hundredths of a pixel: between pixels, 1 and
\* 3.25 pixels to the right of the first one, on the corners of the screen,
\* and off the screen.
RawPositions ==
    {<<6750, 4025>>, <<6850, 4025>>, <<7075, 4025>>, <<0, 0>>,
     <<19900, 9900>>, <<-550, 12075>>}

\* The screen sizes given to update_screen_size.
ScreenSizeChoices == {<<200, 100>>, <<70, 50>>}

\* Settings other than the defaults: a wide dead zone, a high sensitivity,
\* a low velocity limit and no averaging; and the defaults with a high
\* sensitivity and no averaging.
GazeConfigChoices ==
    {DefaultGazeConfig,
     [smoothing_factor |-> 100, dead_zone_radius |-> 100, max_velocity |-> 5,
      sensitivity |-> 300, freeze_on_face_lost |-> TRUE],
     [DefaultGazeConfig EXCEPT !.smoothing_factor = 100, !.sensitivity = 300]}

InitSmoother ==
    /\ config \in [samples_per_point : {MinSamplesPerPoint},
                   countdown_seconds : {DefaultCountdownSeconds},
                   target_positions : {DefaultTargetPositions},
                   outlier_trim_percent : {DefaultTrimPercent}]
    /\ \E s \in ScreenSizes : screen_width = s[1] /\ screen_height = s[2]
    /\ cal = NewCalibrator
    /\ calibration_input = None
    /\ call = NoCall
    /\ smooth_calls = 0
    /\ gaze_mapper = None
    /\ InitController
    /\ store_file = NoFile
    /\ odd_frames = 0
    /\ last_op = Op("init", NoArg)
    /\ ret = "None"

\* smoother.smooth(screen_x, screen_y)
SmoothCall(screen_x, screen_y) ==
    /\ smooth_calls < MaxSmoothCalls
    /\ smooth_calls' = smooth_calls + 1
    /\ LET r == Smooth(smoother, gaze_config, screen_x, screen_y)
       IN  /\ smoother' = r.smoother
           /\ call' = Call("smooth", <<screen_x, screen_y>>,
                           [x |-> r.x, y |-> r.y, velocity |-> r.velocity])
    /\ last_op' = Op("smooth", NoArg)
    /\ ret' = "SmoothedGaze"
    /\ UNCHANGED <<calVars, calibration_input, gaze_mapper, odd_frames, app,
                   camera_open, gaze_config, tracking_enabled, cursor_enabled,
                   mouse_position, last_cursor_pos,
                   calibration_countdown_start, store_file, now, frame_result,
                   worker, visited, waited>>

\* smoother.reset()
ResetCall ==
    /\ smoother' = SmootherReset(smoother)
    /\ smooth_calls' = 0
    /\ call' = Call("reset", <<>>, None)
    /\ last_op' = Op("reset", NoArg)
    /\ ret' = "None"
    /\ UNCHANGED <<calVars, calibration_input, gaze_mapper, odd_frames, app,
                   camera_open, gaze_config, tracking_enabled, cursor_enabled,
                   mouse_position, last_cursor_pos,
                   calibration_countdown_start, store_file, now, frame_result,
                   worker, visited, waited>>

\* smoother.update_config(gc)
UpdateConfigCall(gc) ==
    /\ gaze_config' = gc
    /\ smoother' = SmootherUpdateConfig(smoother, gc)
    /\ call' = Call("update_config", <<gc>>, None)
    /\ last_op' = Op("update_config", NoArg)
    /\ ret' = "None"
    /\ UNCHANGED <<calVars, calibration_input, smooth_calls, gaze_mapper,
                   odd_frames, app, camera_open, tracking_enabled,
                   cursor_enabled, mouse_position, last_cursor_pos,
                   calibration_countdown_start, store_file, now, frame_result,
                   worker, visited, waited>>

\* smoother.update_screen_size(width, height)
UpdateScreenSizeCall(width, height) ==
    /\ smoother' = SmootherUpdateScreenSize(smoother, gaze_config,
                                            width, height)
    /\ call' = Call("update_screen_size", <<width, height>>, None)
    /\ last_op' = Op("update_screen_size", NoArg)
    /\ ret' = "None"
    /\ UNCHANGED <<calVars, calibration_input, smooth_calls, gaze_mapper,
                   odd_frames, app, camera_open, gaze_config,
                   tracking_enabled, cursor_enabled, mouse_position,
                   last_cursor_pos, calibration_countdown_start, store_file,
                   now, frame_result, worker, visited, waited>>

NextSmoother ==
    \/ \E raw \in RawPositions : SmoothCall(raw[1], raw[2])
    \/ ResetCall
    \/ \E gc \in GazeConfigChoices : UpdateConfigCall(gc)
    \/ \E s \in ScreenSizeChoices : UpdateScreenSizeCall(s[1], s[2])

SpecSmoother == InitSmoother /\ [][NextSmoother]_vars

\* The whole pixel p is the raw coordinate (hundredths) cut toward zero.
IsTruncated(p, raw) ==
    IF raw >= 0 THEN p * 100 <= raw /\ raw < (p + 1) * 100
    ELSE p * 100 >= raw /\ raw > (p - 1) * 100

\* C20: on a fresh smoother and after reset(), the first smooth(raw_x,
\* raw_y) adopts the raw input as the smoothed state and returns it, cut to
\* whole pixels toward zero, with velocity 0, whatever the position held
\* before the reset and whatever the settings.
C20_FirstSmoothAdoptsRaw ==
    [][(last_op'.op = "smooth" /\ smooth_calls = 0) =>
          /\ smoother'.smoothed_x = <<call'.args[1]>>
          /\ smoother'.smoothed_y = <<call'.args[2]>>
          /\ IsTruncated(call'.result.x, call'.args[1])
          /\ IsTruncated(call'.result.y, call'.args[2])
          /\ call'.result.velocity = 0]_vars

\* C20 as stated: the position returned by the first smooth() is the raw
\* input itself.
C20_FirstSmoothReturnsRaw ==
    [][(last_op'.op = "smooth" /\ smooth_calls = 0) =>
          /\ smoother'.smoothed_x = <<call'.args[1]>>
          /\ smoother'.smoothed_y = <<call'.args[2]>>
          /\ call'.result.x * 100 = call'.args[1]
          /\ call'.result.y * 100 = call'.args[2]
          /\ call'.result.velocity = 0]_vars

\* On a smoother given the wide dead zone and the high sensitivity, the
\* first smooth(-5.5, 120.75) has returned (-5, 120) with velocity 0 and
\* the smoother holds (-5.5, 120.75).
C20_Witness ==
    /\ last_op.op = "smooth"
    /\ smooth_calls = 1
    /\ gaze_config # DefaultGazeConfig
    /\ call.args = <<-550, 12075>>
    /\ call.result = [x |-> -5, y |-> 120, velocity |-> 0]
    /\ smoother.smoothed_x = <<-550>>
    /\ smoother.smoothed_y = <<12075>>

\* The call of the step is a smooth() on a smoother that holds a position.
NonFirstSmooth == last_op'.op = "smooth" /\ smoother.smoothed_x # <<>>

\* The square of the distance, in hundredths of a pixel, from the position
\* the smoother holds to the raw input of the call.
RawDistanceSquared ==
    LET dx == call'.args[1] - smoother.smoothed_x[1]
        dy == call'.args[2] - smoother.smoothed_y[1]
    IN  dx * dx + dy * dy

\* The update steps in their order, on the position (old_x, old_y): scale
\* the raw displacement by the sensitivity, limit it to max_velocity, move
\* by alpha times it, clamp to the screen; the velocity is the magnitude
\* after the limit.
UpdateSteps(old_x, old_y, raw_x, raw_y, gc, width, height) ==
    LET magnitude == ISqrt((raw_x - old_x) * (raw_x - old_x)
                             + (raw_y - old_y) * (raw_y - old_y))
        scaled_x == TruncDiv((raw_x - old_x) * gc.sensitivity, 100)
        scaled_y == TruncDiv((raw_y - old_y) * gc.sensitivity, 100)
        scaled == TruncDiv(magnitude * gc.sensitivity, 100)
        limit == gc.max_velocity * 100
        step_x == IF scaled > limit
                  THEN TruncDiv(scaled_x * limit, scaled) ELSE scaled_x
        step_y == IF scaled > limit
                  THEN TruncDiv(scaled_y * limit, scaled) ELSE scaled_y
        moved_x == old_x + TruncDiv(gc.smoothing_factor * step_x, 100)
        moved_y == old_y + TruncDiv(gc.smoothing_factor * step_y, 100)
    IN  [x |-> Max(0, Min(moved_x, (width - 1) * 100)),
         y |-> Max(0, Min(moved_y, (height - 1) * 100)),
         velocity |-> IF scaled > limit THEN limit ELSE scaled]

\* The step left the position alone and returned it with velocity 0.
DeadZoneOutcome ==
    /\ smoother' = smoother
    /\ IsTruncated(call'.result.x, smoother.smoothed_x[1])
    /\ IsTruncated(call'.result.y, smoother.smoothed_y[1])
    /\ call'.result.velocity = 0

\* The step applied the update steps to the position.
UpdateOutcome ==
    LET u == UpdateSteps(smoother.smoothed_x[1], smoother.smoothed_y[1],
                         call'.args[1], call'.args[2], gaze_config,
                         smoother.screen_width, smoother.screen_height)
    IN  /\ smoother'.smoothed_x = <<u.x>>
        /\ smoother'.smoothed_y = <<u.y>>
        /\ call'.result.velocity = u.velocity

C22_VelocityClamp ==
    [][NonFirstSmooth =>
          LET old_x == smoother.smoothed_x[1]
              old_y == smoother.smoothed_y[1]
              move_x == smoother'.smoothed_x[1] - old_x
              move_y == smoother'.smoothed_y[1] - old_y
              limit == gaze_config.max_velocity * 100
          IN  /\ move_x * move_x + move_y * move_y
                    <= (limit + 5) * (limit + 5)
              /\ call'.result.velocity <= limit
              /\ move_x * (call'.args[1] - old_x) >= 0
              /\ move_y * (call'.args[2] - old_y) >= 0]_vars

\* The unscaled raw displacement of the call is not inside the dead zone.
OutsideDeadZone ==
    RawDistanceSquared >= (smoother.dead_zone_pixels * 100)
                              * (smoother.dead_zone_pixels * 100)

OnScreen(x, y, width, height) ==
    /\ 0 <= x /\ x <= (width - 1) * 100
    /\ 0 <= y /\ y <= (height - 1) * 100

\* smoother.smooth(screen_x, screen_y) with a raw input on the screen.
SmoothOnScreenCall(screen_x, screen_y) ==
    /\ OnScreen(screen_x, screen_y,
                smoother.screen_width, smoother.screen_height)
    /\ SmoothCall(screen_x, screen_y)

NextOnScreen ==
    \/ \E raw \in RawPositions : SmoothOnScreenCall(raw[1], raw[2])
    \/ ResetCall
    \/ \E gc \in GazeConfigChoices : UpdateConfigCall(gc)
    \/ \E s \in ScreenSizeChoices : UpdateScreenSizeCall(s[1], s[2])

SpecOnScreen == InitSmoother /\ [][NextOnScreen]_vars

\* C24: every position returned by smooth(), after any sequence of smooth,
\* reset, update_config and update_screen_size calls with raw inputs inside
\* the then-current screen, satisfies 0 <= x <= screen_width - 1 and
\* 0 <= y <= screen_height - 1 for the current screen size.
C24_ReturnedOnScreen ==
    call.fn = "smooth" =>
        OnScreen(call.result.x * 100, call.result.y * 100,
                 smoother.screen_width, smoother.screen_height)

\* The dead-zone threshold of the smoother sm is the one derived from the
\* settings gc and the screen size sm has.
ThresholdCurrent(sm, gc) ==
    sm.dead_zone_pixels
        = (gc.dead_zone_radius * Min(sm.screen_width, sm.screen_height))
              \div 1000

\* C25: update_config and update_screen_size leave the smoothed position
\* unchanged, and in every reachable state the dead-zone pixel threshold
\* the next smooth() will use is the one derived from the current
\* dead_zone_radius and the current min(screen_width, screen_height).
C25_ReconfigureKeepsPosition ==
    [][/\ last_op'.op \in {"update_config", "update_screen_size"} =>
              /\ smoother'.smoothed_x = smoother.smoothed_x
              /\ smoother'.smoothed_y = smoother.smoothed_y
       /\ ThresholdCurrent(smoother, gaze_config)
       /\ ThresholdCurrent(smoother', gaze_config')]_vars

\* A smoother at (70.75, 40.25) with the wide dead zone has been given the
\* 70 x 50 screen: it keeps the position and its threshold has gone from
\* 10 pixels to 5.
C25_Witness ==
    /\ last_op.op = "update_screen_size"
    /\ call.args = <<70, 50>>
    /\ gaze_config.dead_zone_radius = 100
    /\ smoother.smoothed_x = <<7075>>
    /\ smoother.smoothed_y = <<4025>>
    /\ smoother.dead_zone_pixels = 5

\* The step is a frame that completed the calibration: _finalize_calibration
\* saved the data, made the mapper and returned the application to IDLE.
CalibrationCompletes ==
    /\ last_op'.op = "process_frame"
    /\ app.current_state = "CALIBRATING"
    /\ app'.current_state = "IDLE"

\* C26: the smoother's position state is reset on tracking start, on resume
\* from pause and on calibration completion: after each of these three
\* events the smoother holds no position, so that the next tracking frame
\* is emitted unfiltered.
C26_SmootherResetOnEvents ==
    [][(\/ last_op'.op = "start_tracking" /\ ret' = "True"
        \/ last_op'.op = "resume_tracking" /\ ret' = "True"
        \/ CalibrationCompletes) =>
          /\ smoother'.smoothed_x = <<>>
          /\ smoother'.smoothed_y = <<>>]_vars

(***************************************************************************)
(* SpecAggregator: a CalibrationTarget used directly.  Samples are added   *)
(* to its buffer and compute_average is called with any trim fraction.     *)
(***************************************************************************)
\* Buffers of 8 samples: ascending, descending, and constant.
BufferChoices ==
    {[i \in 1..8 |-> [x |-> 10 * i, y |-> 10 * i - 40]],
     [i \in 1..8 |-> [x |-> 90 - 10 * i, y |-> 50 - 10 * i]],
     [i \in 1..8 |-> NominalGaze]}

\* The samples added: the nominal gaze, a gaze to the side, and an outlier.
SampleChoices == {NominalGaze, [x |-> 80, y |-> -80], [x |-> -160, y |-> 200]}

\* Trim fractions, in percent: inside [0, 0.5) and outside.
TrimPercentChoices == {0, 10, DefaultTrimPercent, 25, 49, 50, 60}

InitAggregator ==
    /\ config \in [samples_per_point : {MinSamplesPerPoint},
                   countdown_seconds : {DefaultCountdownSeconds},
                   target_positions : {DefaultTargetPositions},
                   outlier_trim_percent : {DefaultTrimPercent}]
    /\ \E s \in ScreenSizes : screen_width = s[1] /\ screen_height = s[2]
    /\ cal = NewCalibrator
    /\ \E b \in BufferChoices :
           calibration_input =
               [index |-> 0, screen_x |-> 100, screen_y |-> 50, samples |-> b]
    /\ call = NoCall
    /\ smooth_calls = 0
    /\ gaze_mapper = None
    /\ InitController
    /\ store_file = NoFile
    /\ odd_frames = 0
    /\ last_op = Op("init", NoArg)
    /\ ret = "None"

\* target.add_sample(gaze)
TargetAddSample(gaze) ==
    /\ Len(calibration_input.samples) < MaxBufferLen
    /\ calibration_input' =
           [calibration_input EXCEPT !.samples = Append(@, gaze)]
    /\ call' = Call("add_sample", <<gaze>>, None)
    /\ last_op' = Op("add_sample", gaze)
    /\ ret' = "None"
    /\ UNCHANGED <<calVars, smooth_calls, gaze_mapper, odd_frames, ctlVars>>

\* target.compute_average(trim_percent)
ComputeAverageCall(trim_percent) ==
    /\ call' = Call("compute_average", <<trim_percent>>,
                    ComputeAverage(calibration_input, trim_percent))
    /\ last_op' = Op("compute_average", NoArg)
    /\ ret' = call'.result.status
    /\ UNCHANGED <<calVars, calibration_input, smooth_calls, gaze_mapper,
                   odd_frames, ctlVars>>

NextAggregator ==
    \/ \E gaze \in SampleChoices : TargetAddSample(gaze)
    \/ \E trim_percent \in TrimPercentChoices : ComputeAverageCall(trim_percent)

SpecAggregator == InitAggregator /\ [][NextAggregator]_vars

MinOf(s) == CHOOSE v \in {s[i] : i \in 1..Len(s)} : \A i \in 1..Len(s) : v <= s[i]
MaxOf(s) == CHOOSE v \in {s[i] : i \in 1..Len(s)} : \A i \in 1..Len(s) : v >= s[i]

\* The sequence s with its first occurrence of v replaced by <<>> or <<w>>.
RECURSIVE ReplaceOne(_, _, _)
ReplaceOne(s, v, w) ==
    IF s = <<>> THEN <<>>
    ELSE IF Head(s) = v THEN w \o Tail(s)
    ELSE <<Head(s)>> \o ReplaceOne(Tail(s), v, w)

\* The values left when the k lowest and the k highest are discarded.
RECURSIVE DropExtremes(_, _)
DropExtremes(s, k) ==
    IF k = 0 THEN s
    ELSE LET without_min == ReplaceOne(s, MinOf(s), <<>>)
         IN  DropExtremes(ReplaceOne(without_min, MaxOf(without_min), <<>>),
                          k - 1)

\* The arithmetic mean of what is left of the values after the lowest and
\* the highest pct percent of them have been discarded.
MeanOfMiddle(values, pct) ==
    LET rest == DropExtremes(values, (pct * Len(values)) \div 100)
    IN  Float(SumSeq(rest), Len(rest))

\* The target with its first sample of the given x replaced by one whose x
\* is new_x, and the same for y.
WithX(target, x, new_x) ==
    LET i == CHOOSE i \in 1..Len(target.samples) :
                 /\ target.samples[i].x = x
                 /\ \A j \in 1..(i - 1) : target.samples[j].x # x
    IN  [target EXCEPT !.samples[i].x = new_x]
WithY(target, y, new_y) ==
    LET i == CHOOSE i \in 1..Len(target.samples) :
                 /\ target.samples[i].y = y
                 /\ \A j \in 1..(i - 1) : target.samples[j].y # y
    IN  [target EXCEPT !.samples[i].y = new_y]

\* compute_average gives the same pair for the targets a and b.
SameAverage(a, b, pct) ==
    /\ FloatEq(ComputeAverage(a, pct).x, ComputeAverage(b, pct).x)
    /\ FloatEq(ComputeAverage(a, pct).y, ComputeAverage(b, pct).y)

\* C28: for every buffer of N >= 10 samples and trim fraction t in
\* [0, 0.5), the aggregate on each axis is the arithmetic mean of that
\* axis's values after the lowest and the highest t-fraction (int(t * N)
\* values on each side) are discarded, for x and y independently and
\* whatever the order of the samples; t = 0 gives the plain mean, and when
\* t >= 1/N, replacing the largest (or the smallest) value on an axis by a
\* more extreme one does not change the result.
C28_TrimmedMean ==
    (/\ call.fn = "compute_average"
     /\ Len(calibration_input.samples) >= 10
     /\ call.args[1] < 50) =>
        LET t == calibration_input
            n == Len(t.samples)
            xs == [i \in 1..n |-> t.samples[i].x]
            ys == [i \in 1..n |-> t.samples[i].y]
            pct == call.args[1]
        IN  /\ FloatEq(call.result.x, MeanOfMiddle(xs, pct))
            /\ FloatEq(call.result.y, MeanOfMiddle(ys, pct))
            /\ pct = 0 =>
                   /\ FloatEq(call.result.x, Float(SumSeq(xs), n))
                   /\ FloatEq(call.result.y, Float(SumSeq(ys), n))
            /\ pct * n >= 100 =>
                   \A more \in {1, 1000} :
                       /\ SameAverage(t, WithX(t, MaxOf(xs), MaxOf(xs) + more), pct)
                       /\ SameAverage(t, WithX(t, MinOf(xs), MinOf(xs) - more), pct)
                       /\ SameAverage(t, WithY(t, MaxOf(ys), MaxOf(ys) + more), pct)
                       /\ SameAverage(t, WithY(t, MinOf(ys), MinOf(ys) - more), pct)

\* The descending buffer with the outlier and the nominal gaze added has
\* been averaged with the default trim fraction: of the x values 80 .. 10,
\* -160, 0 the lowest and the highest are discarded, and the y outlier 200
\* is discarded as well.
C28_Witness ==
    /\ call.fn = "compute_average"
    /\ call.args = <<DefaultTrimPercent>>
    /\ calibration_input.samples =
           [i \in 1..8 |-> [x |-> 90 - 10 * i, y |-> 50 - 10 * i]]
               \o <<[x |-> -160, y |-> 200], NominalGaze>>
    /\ FloatEq(call.result.x, Float(280, 8))
    /\ FloatEq(call.result.y, Float(70, 8))

\* C29: the aggregator never removes every sample: with a trim fraction
\* that would discard 50% or more of the samples on each side, the result
\* is the full, untrimmed mean of the buffer, not an empty-set mean, an
\* undefined value or an error.
C29_DegeneratesToFullMean ==
    (/\ call.fn = "compute_average"
     /\ Len(calibration_input.samples) >= 10
     /\ call.args[1] >= 50) =>
        LET n == Len(calibration_input.samples)
            xs == [i \in 1..n |-> calibration_input.samples[i].x]
            ys == [i \in 1..n |-> calibration_input.samples[i].y]
        IN  /\ call.result.status = "value"
            /\ FloatEq(call.result.x, Float(SumSeq(xs), n))
            /\ FloatEq(call.result.y, Float(SumSeq(ys), n))

(***************************************************************************)
(* SpecStateMachine: a StateMachine used directly.  transition_to is       *)
(* called with any state, set_error and reset at any time.                 *)
(***************************************************************************)
ErrorInfoChoices ==
    {ErrorInfo("CameraError", "Failed to open camera", TRUE),
     ErrorInfo("CalibrationError", "Calibration failed to finalize", TRUE)}

InitStateMachine ==
    /\ config \in [samples_per_point : {MinSamplesPerPoint},
                   countdown_seconds : {DefaultCountdownSeconds},
                   target_positions : {DefaultTargetPositions},
                   outlier_trim_percent : {DefaultTrimPercent}]
    /\ \E s \in ScreenSizes : screen_width = s[1] /\ screen_height = s[2]
    /\ cal = NewCalibrator
    /\ calibration_input = None
    /\ call = NoCall
    /\ smooth_calls = 0
    /\ gaze_mapper = None
    /\ InitController
    /\ store_file = NoFile
    /\ odd_frames = 0
    /\ last_op = Op("init", NoArg)
    /\ ret = "None"

\* What a call on the state machine leaves alone.
StateMachineFrame ==
    UNCHANGED <<calVars, calibration_input, smooth_calls, gaze_mapper,
                odd_frames, camera_open, gaze_config, smoother,
                tracking_enabled, cursor_enabled, mouse_position,
                last_cursor_pos, calibration_countdown_start, store_file,
                now, frame_result, worker, visited, waited>>

\* state_machine.transition_to(new_state)
TransitionToCall(new_state) ==
    /\ app' = TransitionTo(app, new_state)
    /\ call' = Call("transition_to", <<new_state>>,
                    IsValidTransition(app.current_state, new_state))
    /\ last_op' = Op("transition_to", NoArg)
    /\ ret' = IF call'.result THEN "True" ELSE "False"
    /\ StateMachineFrame

\* state_machine.set_error(error_info)
SetErrorCall(error_info) ==
    /\ app' = SetError(app, error_info)
    /\ call' = Call("set_error", <<error_info>>,
                    IsValidTransition(app.current_state, "ERROR"))
    /\ last_op' = Op("set_error", NoArg)
    /\ ret' = IF call'.result THEN "True" ELSE "False"
    /\ StateMachineFrame

\* state_machine.reset()
StateMachineResetCall ==
    /\ app' = StateMachineReset(app)
    /\ call' = Call("reset", <<>>, None)
    /\ last_op' = Op("reset", NoArg)
    /\ ret' = "None"
    /\ StateMachineFrame

\* state_machine.can_transition_to(new_state)
CanTransitionToCall(new_state) ==
    /\ call' = Call("can_transition_to", <<new_state>>,
                    CanTransitionTo(app, new_state))
    /\ last_op' = Op("can_transition_to", NoArg)
    /\ ret' = IF call'.result THEN "True" ELSE "False"
    /\ UNCHANGED app
    /\ StateMachineFrame

NextStateMachine ==
    \/ \E new_state \in AppStates : TransitionToCall(new_state)
    \/ \E new_state \in AppStates : CanTransitionToCall(new_state)
    \/ \E error_info \in ErrorInfoChoices : SetErrorCall(error_info)
    \/ StateMachineResetCall

SpecStateMachine == InitStateMachine /\ [][NextStateMachine]_vars

\* The allowed graph: the pairs (from, to) of different states.
AllowedEdges ==
    {<<"IDLE", "CALIBRATING">>, <<"IDLE", "TRACKING">>, <<"IDLE", "ERROR">>,
     <<"CALIBRATING", "IDLE">>, <<"CALIBRATING", "ERROR">>,
     <<"TRACKING", "PAUSED">>, <<"TRACKING", "IDLE">>,
     <<"TRACKING", "ERROR">>,
     <<"PAUSED", "TRACKING">>, <<"PAUSED", "IDLE">>, <<"PAUSED", "ERROR">>,
     <<"ERROR", "IDLE">>}

RecoverableError ==
    /\ app.current_state = "ERROR"
    /\ app.error # None
    /\ app.error.recoverable

\* No operation of the Controller other than shutdown takes the application
\* out of ERROR.
ErrorIsKept == [][app.current_state = "ERROR" => app'.current_state = "ERROR"]_vars

\* C31: a recoverable error can be recovered from through the Controller:
\* IDLE is the only state ERROR can be left for, so wherever the application
\* holds a recoverable error, some operation other than shutdown (the steps
\* of Next) can take it from ERROR to IDLE.
C31_RecoverableThroughController ==
    RecoverableError => ENABLED (Next /\ app'.current_state = "IDLE")

\* C32: tracking can be stopped whenever it is active or paused: from PAUSED
\* as from TRACKING, stop_tracking returns the application to IDLE, disables
\* cursor control and closes the camera.
C32_StopFromTrackingOrPaused ==
    [][(last_op'.op = "stop_tracking"
        /\ app.current_state \in {"TRACKING", "PAUSED"})
       => (/\ app'.current_state = "IDLE"
           /\ ~cursor_enabled'
           /\ ~camera_open')]_vars

\* C33: in every state reachable through the operations of the Controller,
\* shutdown included, the application is IDLE only with the camera closed.
C33_IdleCameraClosed == app.current_state = "IDLE" => ~camera_open

\* stop_tracking has returned the application to IDLE from a tracking that
\* had the camera open.
C33_Witness ==
    /\ app.current_state = "IDLE"
    /\ app.previous_state = "TRACKING"
    /\ last_op.op = "stop_tracking"
    /\ ret = "True"
    /\ gaze_mapper # None
    /\ ~camera_open

\* The step moves the mouse, or leaves the smoother with a position it did
\* not hold before.
CursorMoved == mouse_position' # mouse_position
SmootherAdvanced ==
    /\ smoother' # smoother
    /\ smoother'.smoothed_x # <<>>

\* The step is a process_frame call that found a gaze while the application
\* was TRACKING with a mapper installed.
TrackingGazeFrame ==
    /\ last_op'.op = "process_frame"
    /\ app.current_state = "TRACKING"
    /\ gaze_mapper # None
    /\ frame_result' # None
    /\ frame_result'.gaze # None

\* C34: the cursor is moved, and the smoother advanced, only by a
\* process_frame call that finds a gaze while the application is TRACKING
\* with tracking enabled and a mapper installed; such a frame with tracking
\* disabled moves nothing, leaves the smoother alone and reports the last
\* cursor position.
C34_CursorMovesOnlyWhenTracking ==
    [][/\ (CursorMoved \/ SmootherAdvanced) =>
              (TrackingGazeFrame /\ tracking_enabled)
       /\ (TrackingGazeFrame /\ ~tracking_enabled) =>
              /\ frame_result'.cursor_pos = last_cursor_pos
              /\ last_cursor_pos' = last_cursor_pos
              /\ ~CursorMoved
              /\ smoother' = smoother]_vars

\* A frame with a gaze arrived while tracking was switched off, after the
\* cursor had been moved: it reported the position of that move.
C34_Witness ==
    /\ last_op.op = "process_frame"
    /\ app.current_state = "TRACKING"
    /\ ~tracking_enabled
    /\ gaze_mapper # None
    /\ frame_result # None
    /\ frame_result.gaze # None
    /\ last_cursor_pos # <<>>
    /\ frame_result.cursor_pos = last_cursor_pos
    /\ mouse_position = last_cursor_pos

\* The step is a frame of a Controller-driven calibration whose sample
\* brought the calibrator to COMPLETED.
FrameCompletesCalibration ==
    /\ last_op'.op = "process_frame"
    /\ app.current_state = "CALIBRATING"
    /\ cal.state = "COLLECTING"
    /\ cal'.state = "COMPLETED"

\* C35: the frame that brings a Controller-driven calibration to COMPLETED
\* either has its data accepted by the store, and then the file holds that
\* data, the mapper is the one built from it, the camera is closed and the
\* application has gone from CALIBRATING to IDLE; or the save fails, and
\* then the application is in ERROR with the storage error and the file and
\* the mapper (or the absence of one) are as they were.
C35_CompletionInstallsOrFails ==
    [][FrameCompletesCalibration =>
        LET d == cal'.calibration_data
        IN  \/ /\ store_file' = FileWith(ToDict(d))
               /\ gaze_mapper' # None
               /\ gaze_mapper' = GazeMapperInit(d).mapper
               /\ ~camera_open'
               /\ app'.current_state = "IDLE"
               /\ app'.previous_state = "CALIBRATING"
            \/ /\ store_file' = store_file
               /\ gaze_mapper' = gaze_mapper
               /\ app'.current_state = "ERROR"
               /\ app'.error = ErrorInfo("StorageError",
                                   "Failed to save calibration", TRUE)]_vars

\* A calibration has been completed while a mapper from an older file was
\* installed: the new data is in the file and the mapper is built from it.
C35_Witness ==
    /\ last_op.op = "process_frame"
    /\ cal.state = "COMPLETED"
    /\ app.current_state = "IDLE"
    /\ app.previous_state = "CALIBRATING"
    /\ store_file = FileWith(ToDict(cal.calibration_data))
    /\ store_file # FileWith(ToDict(StoredCalibration))
    /\ gaze_mapper = GazeMapperInit(cal.calibration_data).mapper
    /\ ~camera_open

(***************************************************************************)
(* Claims about the error information of the StateMachine                  *)
(***************************************************************************)
\* C36, as stated: error information is present if and only if the current
\* state is ERROR.
C36_ErrorIffErrorState == (app.error # None) <=> (app.current_state = "ERROR")

\* C36, amended: error information is present only in ERROR: it is never
\* left set in another state, every exit from ERROR clears it, and
\* set_error leaves the machine in ERROR with the information given.  A
\* machine that entered ERROR through transition_to(ERROR) has none.
C36_ErrorOnlyInErrorState ==
    /\ app.error # None => app.current_state = "ERROR"
    /\ call.fn = "set_error" =>
           /\ app.current_state = "ERROR"
           /\ app.error = call.args[1]
    /\ (/\ call.fn = "transition_to"
        /\ call.args = <<"ERROR">>
        /\ app.previous_state # "ERROR") =>
           /\ app.current_state = "ERROR"
           /\ app.error = None

\* transition_to(ERROR) has taken a machine from TRACKING to ERROR: no
\* error information is present.
C36_Witness ==
    /\ call.fn = "transition_to"
    /\ call.args = <<"ERROR">>
    /\ call.result = TRUE
    /\ app.current_state = "ERROR"
    /\ app.previous_state = "TRACKING"
    /\ app.error = None

(***************************************************************************)
(* Claims about the Controller's calibration and mapper                    *)
(***************************************************************************)
\* C37: in every state reachable through the operations of the Controller,
\* delete_calibration at any time included, the application is TRACKING or
\* PAUSED only with a gaze mapper installed.
C37_TrackingHasMapper ==
    app.current_state \in {"TRACKING", "PAUSED"} => gaze_mapper # None


\* The targets of the calibrator c below its current index hold exactly
\* samples_per_point samples, the current one holds fewer, and the ones
\* above hold none.
TargetsFilledInOrder(c) ==
    \A i \in 1..Len(c.targets) :
        LET n == Len(c.targets[i].samples)
        IN  /\ i - 1 < c.current_target_index => n = config.samples_per_point
            /\ i - 1 = c.current_target_index => n < config.samples_per_point
            /\ i - 1 > c.current_target_index => n = 0

\* C38: during a Controller-driven calibration the targets are worked on in
\* increasing index order: at every step the targets are filled in order as
\* above, and the current target index does not decrease except in a
\* start_calibration call that started the calibrator again.
C38_TargetsInIncreasingOrder ==
    [][/\ TargetsFilledInOrder(cal')
       /\ ~(last_op'.op = "start_calibration" /\ ret' = "True") =>
              cal'.current_target_index >= cal.current_target_index]_vars

\* The second target is being collected: the first has its ten samples, the
\* second some, the third none.
C38_Witness ==
    /\ app.current_state = "CALIBRATING"
    /\ cal.state = "COLLECTING"
    /\ cal.current_target_index = 1
    /\ Len(cal.targets) = 3
    /\ Len(cal.targets[1].samples) = config.samples_per_point
    /\ Len(cal.targets[2].samples) \in 1..(config.samples_per_point - 1)
    /\ Len(cal.targets[3].samples) = 0

\* C39: whenever the calibrator is in COLLECTING, the current target index
\* refers to an existing target, for every list of target positions, the
\* empty one included, and every sequence of calls the Controller issues;
\* so that no frame ends in the IndexError of add_sample.
C39_CollectingIndexInRange ==
    /\ cal.state = "COLLECTING" =>
           /\ 0 <= cal.current_target_index
           /\ cal.current_target_index < Len(cal.targets)
    /\ ret # "IndexError"

(***************************************************************************)
(* Claims about the smoother under a constant input                        *)
(***************************************************************************)
\* The square of the distance between the position the smoother sm holds
\* and the raw input, in hundredths of a pixel.
DistanceToRaw2(sm, raw) ==
    (raw[1] - sm.smoothed_x[1]) * (raw[1] - sm.smoothed_x[1])
        + (raw[2] - sm.smoothed_y[1]) * (raw[2] - sm.smoothed_y[1])

\* The step is a smooth call that repeats the raw input of the smooth call
\* before it, on a smoother that holds a position.
RepeatedSmooth ==
    /\ call.fn = "smooth"
    /\ call'.fn = "smooth"
    /\ last_op'.op = "smooth"
    /\ call'.args = call.args
    /\ smooth_calls > 0
    /\ smoother.smoothed_x # <<>>

\* C40: no overshoot: while the raw input stays the same, a smooth call
\* never increases the distance between the smoothed position and the raw
\* input, under every accepted configuration.
C40_NoOvershoot ==
    [][RepeatedSmooth =>
           DistanceToRaw2(smoother', call'.args)
               <= DistanceToRaw2(smoother, call'.args)]_vars


=============================================================================
